---- MODULE Spec2Model ----
(***************************************************************************)
(* Sliding-window metric clients (KPA dual-window, APA single-window) and  *)
(* the metric store's refresh pipeline of zugwan/aibrix.                   *)
(*                                                                         *)
(* Time is counted in half seconds (Second == 2), so that two timestamps   *)
(* of the same second are different inputs that fall in the same bucket.   *)
(* Metric values are small naturals; an average is kept as the fraction    *)
(* [num, den] it was computed as, and compared by cross-multiplication.    *)
(***************************************************************************)
EXTENDS Integers, Sequences, FiniteSets, TLC

\* ------------------------------------------------------------ bounds
\* Number of update calls in one behaviour of the client specifications.
MaxUpdates == 2

\* ------------------------------------------------------- program constants
Second == 2
\* NewKPAMetricsClient
stableDuration == 60 * Second
panicDuration == 10 * Second
granularity == Second
\* NewAPAMetricsClient
duration == 60 * Second

\* ------------------------------------------------------------ inputs
Keys == {"k1", "k2"}
\* Timestamps a caller passes: two in the same second, the next second, and
\* one second past the stable horizon (the slot of the next second in both
\* rings, and out of the panic horizon of all the others).
Times == {0, 1, Second, stableDuration + Second}
Values == {0, 2}
\* The per-pod sample lists handed to UpdatePodListMetric.
ValueLists == {<< >>, <<2>>, <<1, 3>>}

\* ------------------------------------------------------------ fractions
Frac(n, d) == [num |-> n, den |-> d]
MinusOne == Frac(-1, 1)
FracEq(a, b) == a.num * b.den = b.num * a.den
IsValue(a, v) == a.num = v * a.den

\* ------------------------------------------------------------ Go maps
MapPut(m, k, v) == [x \in DOMAIN m \cup {k} |-> IF x = k THEN v ELSE m[x]]
EmptyMap == [x \in {} |-> 0]

\* ------------------------------------------------------------ TimeWindow
\* (package aggregation; modelled from the specification's section 4.1)
\* The ring has duration/granularity slots; buckets maps the populated slots
\* to their (start, value), an unpopulated slot is absent from it.
NewTimeWindow(d, g) ==
    [duration |-> d, granularity |-> g, buckets |-> EmptyMap]

BucketCount(w) == w.duration \div w.granularity
BucketStart(w, t) == (t \div w.granularity) * w.granularity
BucketIndex(w, t) == (t \div w.granularity) % BucketCount(w)

Record(w, t, v) ==
    [w EXCEPT !.buckets =
        MapPut(@, BucketIndex(w, t), [start |-> BucketStart(w, t), value |-> v])]

\* The slots that count at query time now.
InRange(w, now) ==
    {i \in DOMAIN w.buckets :
        /\ now - w.duration <= w.buckets[i].start
        /\ w.buckets[i].start <= now}

RECURSIVE SumSlots(_, _)
SumSlots(w, S) ==
    IF S = {} THEN 0
    ELSE LET i == CHOOSE x \in S : TRUE
         IN w.buckets[i].value + SumSlots(w, S \ {i})

Avg(w, now) ==
    LET S == InRange(w, now)
    IN IF S = {} THEN [val |-> Frac(0, 1), err |-> "EmptyWindow"]
       ELSE [val |-> Frac(SumSlots(w, S), Cardinality(S)), err |-> "nil"]

\* The clients call window.Avg() with no time: the window can only average
\* relative to what it holds, its newest populated bucket.
Populated(w) == DOMAIN w.buckets
Newest(w) ==
    LET P == Populated(w)
    IN w.buckets[CHOOSE i \in P :
           \A j \in P : w.buckets[j].start <= w.buckets[i].start].start
WindowAvg(w) ==
    IF Populated(w) = {} THEN [val |-> Frac(0, 1), err |-> "EmptyWindow"]
    ELSE Avg(w, Newest(w))

\* ------------------------------------------------------------ state
VARIABLES
    variant,            \* "KPA" or "APA": which constructor built the client
    panicWindowDict,    \* KPAMetricsClient.panicWindowDict
    stableWindowDict,   \* KPAMetricsClient.stableWindowDict
    windowDict,         \* APAMetricsClient.windowDict
    hist,               \* per key, the updates made so far: <<now, value>>
    call,               \* sequential use: the last call and what it returned
    collectionsMutex,   \* the client's sync.RWMutex: its writer and its readers
    pc,                 \* concurrent use: where each goroutine is in its call
    frame               \* concurrent use: each goroutine's arguments and locals

clientVars == <<variant, panicWindowDict, stableWindowDict, windowDict, hist, call>>
concVars == <<collectionsMutex, pc, frame>>

\* The metric store (type Store) and its refresh cycle.
VARIABLES
    Pods,               \* Store.Pods: pod name -> [ready]
    PodMetrics,         \* Store.PodMetrics: pod -> metric -> value
    PodModelMetrics,    \* Store.PodModelMetrics: pod -> model -> metric -> value
    PodToModelMapping,  \* Store.PodToModelMapping: pod -> set of models
    prometheusApi,      \* Store.prometheusApi: "nil" or "api"
    mu,                 \* Store.mu: "free" or who holds it
    cycle,              \* how many refresh cycles have begun
    spc,                \* where the refresh goroutine is in updatePodMetrics
    readyPods,          \* updatePodMetrics: the ready pods of this cycle
    todo,               \* the ready pods the loop has not visited yet
    cur,                \* the pod being updated, and whether its fetch succeeded
    idx,                \* the position in the metric name list being walked
    mtodo,              \* the models of the pod still to query for this metric
    visited,            \* this cycle's fetches in order: <<pod, ok>>
    offered,            \* this cycle's values that were there to record
    queried,            \* the queries made for the pod being updated, in order
    rec                 \* the updatePodRecordLocked call of the last step, if any

storeTables == <<Pods, PodMetrics, PodModelMetrics, PodToModelMapping, prometheusApi>>
storeVars == <<storeTables, mu, cycle, spc, readyPods, todo, cur, idx, mtodo,
               visited, offered, queried, rec>>

\* The two periodic drivers that Init starts (initMetricsCache, initTraceCache).
VARIABLES
    clock,              \* the wall clock, in steps, modulo ClockModulus
    stopCh,             \* whether stopCh is closed
    redisClient,        \* Init's redisClient: "nil" or "redis"
    numRequestsTraces,  \* store.numRequestsTraces
    mpc,                \* where the refresh goroutine is: select, refresh, done
    inFlight,           \* executions of updatePodMetrics in progress
    ticker,             \* the refresh ticker: steps to its next tick, or Stopped
    tickerC,            \* ticker.C: the ticks waiting in the channel
    overran,            \* whether a tick fired during the cycle in progress or just ended
    dropped,            \* whether the ticker dropped a tick since the last cycle began
    tpc,                \* where the trace goroutine is: start, aligning, ticking, done
    traceAlignmentTimer,\* steps until the timer fires (0: it has fired), or NilTimer
    traceTicker,        \* steps to the trace ticker's next tick, NilTimer or Stopped
    traceTickerC,       \* traceTicker.C: the ticks waiting in the channel
    startClock,         \* the clock when initTraceCache ran
    tickerStart,        \* the clock when traceTicker was made, or -1
    wrote,              \* roundT of the last writeRequestTraceToStorage call, or -1
    stoppedIn,          \* where each goroutine was when stopCh was closed
    wroteAt             \* time.Now().Unix() at the last writeRequestTraceToStorage call, or -1

driverVars == <<clock, stopCh, redisClient, numRequestsTraces, mpc, inFlight, ticker,
                tickerC, overran, dropped, tpc, traceAlignmentTimer, traceTicker,
                traceTickerC, startClock, tickerStart, wrote, stoppedIn, wroteAt>>
\* The process-wide store (var store, once) and the goroutines calling Init
\* and Get.
VARIABLES
    store,              \* the global store: "zero" (&Store{}) or "new" (what New made)
    once,               \* sync.Once: "fresh", "running" (its function runs) or "done"
    ipc,                \* where each caller is in Init or Get
    ret,                \* what each caller's last call returned
    constructed,        \* how many times New has run
    informers,          \* whether initCacheInformers has set up the informers
    starts,             \* how many times each driver was started
    synced              \* the callers that have returned from once.Do

singletonVars == <<store, once, ipc, ret, constructed, informers, starts, synced>>

\* One PodMetricClient.GetMetricsFromPods call.
VARIABLES
    fpc,                \* where the call is: idle, loop, done
    fPods,              \* the call's pods
    fIdx,               \* the position of the range loop
    fMetrics,           \* the local slice metrics
    fRet,               \* what the call returned
    fFetched            \* the FetchPodMetrics calls made, in order, with their results

fetchVars == <<fpc, fPods, fIdx, fMetrics, fRet, fFetched>>

\* One Store.aggregateMetrics call.
VARIABLES
    subscribers,        \* Store.subscribers: each subscriber's SubscribedMetrics()
    metrics,            \* Store.metrics: a nil map, or its entries
    apc,                \* where the call is: idle, loop, done, panic
    aSub,               \* the subscriber the outer loop is at
    aMet                \* the metric the inner loop is at

aggVars == <<subscribers, metrics, apc, aSub, aMet>>

restVars == <<singletonVars, fetchVars, aggVars>>
vars == <<clientVars, concVars, storeVars, driverVars, restVars>>

\* ------------------------------------------------------------ store: data
\* Number of refresh cycles in one behaviour of the store specification.
MaxCycles == 2

PodNames == {"p1", "p2"}
\* The model sets an added pod is mapped to (none, or one model).
ModelSets == {{}, {"m1"}}
\* What a pod's /metrics fetch gives: nothing (the fetch failed and allMetrics
\* is nil), or every family with one sample, whose value does not parse, or
\* which carries the model_name label, or which carries none.
Payloads == {"nil", "unparsable", "labelled", "unlabelled"}

PodMetricScope == "Pod"
PodModelMetricScope == "PodModel"

\* The store's metric name lists, one name kept per scope the registry gives
\* the family's metrics (and one whose scope is neither).
counterGaugeMetricNames == <<"num_requests_running", "num_requests_swapped">>
histogramMetricNames == <<"time_to_first_token_seconds">>
labelQueryMetricNames == <<"max_lora">>
prometheusMetricNames == <<"p95_ttft_5m", "p95_ttft_5m_pod">>

\* metrics.Metrics (package metrics): each metric's declared scope.
MetricScopeOf(metricName) ==
    CASE metricName = "num_requests_running" -> PodModelMetricScope
      [] metricName = "num_requests_swapped" -> "Unknown"
      [] metricName = "time_to_first_token_seconds" -> PodModelMetricScope
      [] metricName = "max_lora" -> PodMetricScope
      [] metricName = "p95_ttft_5m" -> PodModelMetricScope
      [] metricName = "p95_ttft_5m_pod" -> PodMetricScope

MapRemove(m, k) == [x \in DOMAIN m \ {k} |-> m[x]]

NoCur == [pod |-> "none", ok |-> FALSE, payload |-> "nil"]
NoRec ==
    [pod |-> "none", model |-> "", metric |-> "", scope |-> "",
     value |-> [kind |-> "none", at |-> 0], err |-> "nil"]

\* New(redisClient, prometheusApi): empty tables; the refresh goroutine idle.
StoreNew ==
    /\ Pods = EmptyMap
    /\ PodMetrics = EmptyMap
    /\ PodModelMetrics = EmptyMap
    /\ PodToModelMapping = EmptyMap
    /\ mu = "free"
    /\ cycle = 0
    /\ spc = "idle"
    /\ readyPods = {}
    /\ todo = {}
    /\ cur = NoCur
    /\ idx = 0
    /\ mtodo = {}
    /\ visited = << >>
    /\ offered = {}
    /\ queried = << >>
    /\ rec = NoRec

Procs == {"g1", "g2"}
NoProc == "none"

NoCall ==
    [op |-> "none", key |-> "k1", now |-> 0, values |-> << >>, value |-> 0,
     stable |-> MinusOne, panic |-> MinusOne, err |-> "nil"]

Updates == Len(hist["k1"]) + Len(hist["k2"])

\* ------------------------------------------------------------ KPA client
\* The closure updateWindow of UpdateMetricIntoWindow (both clients): the map
\* lookup that creates a missing window, then window.Record(now, metricValue).
\* A variant of createWindow that makes a fresh window on every update.
createWindowAlwaysNew(dict, metricKey, d) ==
    MapPut(dict, metricKey, NewTimeWindow(d, granularity))

\* A variant of createWindow that gives every new window the stable duration.
createWindowStableOnly(dict, metricKey, d) ==
    IF metricKey \in DOMAIN dict THEN dict
    ELSE MapPut(dict, metricKey, NewTimeWindow(stableDuration, granularity))

createWindow(dict, metricKey, d) ==
    IF metricKey \in DOMAIN dict THEN dict
    ELSE MapPut(dict, metricKey, NewTimeWindow(d, granularity))

\* A variant of the Record call that leaves a bucket of the same second as it is.
recordWindowKeepFirst(dict, metricKey, now, metricValue) ==
    LET w == dict[metricKey]
    IN IF /\ BucketIndex(w, now) \in DOMAIN w.buckets
          /\ w.buckets[BucketIndex(w, now)].start = BucketStart(w, now)
       THEN dict
       ELSE MapPut(dict, metricKey, Record(w, now, metricValue))

recordWindow(dict, metricKey, now, metricValue) ==
    MapPut(dict, metricKey, Record(dict[metricKey], now, metricValue))

updateWindow(dict, metricKey, d, now, metricValue) ==
    recordWindow(createWindow(dict, metricKey, d), metricKey, now, metricValue)

\* A variant of the summing loop that keeps only the last pod's value.
sumMetricValueLastOnly(metricValues) ==
    IF metricValues = << >> THEN 0 ELSE metricValues[Len(metricValues)]

RECURSIVE sumMetricValue(_)
sumMetricValue(metricValues) ==
    IF metricValues = << >> THEN 0
    ELSE Head(metricValues) + sumMetricValue(Tail(metricValues))

\* A map read `window, exists := dict[metricKey]`.
NoWindow == [duration |-> 0, granularity |-> 0, buckets |-> EmptyMap]
Lookup(dict, metricKey) ==
    IF metricKey \in DOMAIN dict THEN [exists |-> TRUE, window |-> dict[metricKey]]
    ELSE [exists |-> FALSE, window |-> NoWindow]
NotRead == [exists |-> FALSE, window |-> NoWindow]

\* StableAndPanicMetrics stops after the panic window when that one is missing
\* or its average fails.
PanicReadFails(pobs) == ~pobs.exists \/ WindowAvg(pobs.window).err # "nil"

\* A variant of StableAndPanicMetrics that hands back the panic average it
\* already has when the stable window is missing or empty.
StableAndPanicResultPartial(pobs, sobs) ==
    IF ~pobs.exists
    THEN [stable |-> MinusOne, panic |-> MinusOne, err |-> "KeyNotFound"]
    ELSE LET p == WindowAvg(pobs.window)
         IN IF p.err # "nil"
            THEN [stable |-> MinusOne, panic |-> MinusOne, err |-> p.err]
            ELSE IF ~sobs.exists
            THEN [stable |-> MinusOne, panic |-> p.val, err |-> "KeyNotFound"]
            ELSE LET s == WindowAvg(sobs.window)
                 IN IF s.err # "nil"
                    THEN [stable |-> MinusOne, panic |-> p.val, err |-> s.err]
                    ELSE [stable |-> s.val, panic |-> p.val, err |-> "nil"]

\* What StableAndPanicMetrics returns, given what its two map reads found.
StableAndPanicResult(pobs, sobs) ==
    IF ~pobs.exists
    THEN [stable |-> MinusOne, panic |-> MinusOne, err |-> "KeyNotFound"]
    ELSE LET p == WindowAvg(pobs.window)
         IN IF p.err # "nil"
            THEN [stable |-> MinusOne, panic |-> MinusOne, err |-> p.err]
            ELSE IF ~sobs.exists
            THEN [stable |-> MinusOne, panic |-> MinusOne, err |-> "KeyNotFound"]
            ELSE LET s == WindowAvg(sobs.window)
                 IN IF s.err # "nil"
                    THEN [stable |-> MinusOne, panic |-> MinusOne, err |-> s.err]
                    ELSE [stable |-> s.val, panic |-> p.val, err |-> "nil"]

\* A variant of GetMetricValue that reports a missing key as a successful zero.
GetMetricValueResultZeroForMissing(obs) ==
    IF ~obs.exists
    THEN [stable |-> Frac(0, 1), panic |-> Frac(0, 1), err |-> "nil"]
    ELSE LET m == WindowAvg(obs.window)
         IN IF m.err # "nil"
            THEN [stable |-> MinusOne, panic |-> MinusOne, err |-> m.err]
            ELSE [stable |-> m.val, panic |-> m.val, err |-> "nil"]

\* What GetMetricValue returns; the single value is reported in both fields.
GetMetricValueResult(obs) ==
    IF ~obs.exists
    THEN [stable |-> MinusOne, panic |-> MinusOne, err |-> "KeyNotFound"]
    ELSE LET m == WindowAvg(obs.window)
         IN IF m.err # "nil"
            THEN [stable |-> MinusOne, panic |-> MinusOne, err |-> m.err]
            ELSE [stable |-> m.val, panic |-> m.val, err |-> "nil"]

\* A variant of UpdateMetricIntoWindow that records into the panic window only.
KPAUpdateMetricIntoWindowPanicOnly(metricKey, now, metricValue) ==
    /\ variant = "KPA"
    /\ Updates < MaxUpdates
    /\ panicWindowDict' = updateWindow(panicWindowDict, metricKey, panicDuration, now, metricValue)
    /\ hist' = [hist EXCEPT ![metricKey] = Append(@, <<now, metricValue>>)]
    /\ call' = [NoCall EXCEPT !.op = "UpdateMetricIntoWindow", !.key = metricKey,
                              !.now = now, !.value = metricValue]
    /\ UNCHANGED <<variant, stableWindowDict, windowDict, concVars, storeVars, driverVars, restVars>>

KPAUpdateMetricIntoWindow(metricKey, now, metricValue) ==
    /\ variant = "KPA"
    /\ Updates < MaxUpdates
    /\ panicWindowDict' = updateWindow(panicWindowDict, metricKey, panicDuration, now, metricValue)
    /\ stableWindowDict' = updateWindow(stableWindowDict, metricKey, stableDuration, now, metricValue)
    /\ hist' = [hist EXCEPT ![metricKey] = Append(@, <<now, metricValue>>)]
    /\ call' = [NoCall EXCEPT !.op = "UpdateMetricIntoWindow", !.key = metricKey,
                              !.now = now, !.value = metricValue]
    /\ UNCHANGED <<variant, windowDict, concVars, storeVars, driverVars, restVars>>

KPAUpdatePodListMetric(metricValues, metricKey, now) ==
    /\ variant = "KPA"
    /\ Updates < MaxUpdates
    /\ LET sum == sumMetricValue(metricValues)
       IN /\ panicWindowDict' = updateWindow(panicWindowDict, metricKey, panicDuration, now, sum)
          /\ stableWindowDict' = updateWindow(stableWindowDict, metricKey, stableDuration, now, sum)
          /\ hist' = [hist EXCEPT ![metricKey] = Append(@, <<now, sum>>)]
    /\ call' = [NoCall EXCEPT !.op = "UpdatePodListMetric", !.key = metricKey,
                              !.now = now, !.values = metricValues]
    /\ UNCHANGED <<variant, windowDict, concVars, storeVars, driverVars, restVars>>

StableAndPanicMetrics(metricKey, now) ==
    /\ variant = "KPA"
    /\ LET r == StableAndPanicResult(Lookup(panicWindowDict, metricKey),
                                      Lookup(stableWindowDict, metricKey))
       IN call' = [NoCall EXCEPT !.op = "StableAndPanicMetrics", !.key = metricKey,
                                 !.now = now, !.stable = r.stable, !.panic = r.panic,
                                 !.err = r.err]
    /\ UNCHANGED <<variant, panicWindowDict, stableWindowDict, windowDict, hist, concVars, storeVars, driverVars, restVars>>

\* ------------------------------------------------------------ APA client
APAUpdateMetricIntoWindow(metricKey, now, metricValue) ==
    /\ variant = "APA"
    /\ Updates < MaxUpdates
    /\ windowDict' = updateWindow(windowDict, metricKey, duration, now, metricValue)
    /\ hist' = [hist EXCEPT ![metricKey] = Append(@, <<now, metricValue>>)]
    /\ call' = [NoCall EXCEPT !.op = "UpdateMetricIntoWindow", !.key = metricKey,
                              !.now = now, !.value = metricValue]
    /\ UNCHANGED <<variant, panicWindowDict, stableWindowDict, concVars, storeVars, driverVars, restVars>>

APAUpdatePodListMetric(metricValues, metricKey, now) ==
    /\ variant = "APA"
    /\ Updates < MaxUpdates
    /\ LET sum == sumMetricValue(metricValues)
       IN /\ windowDict' = updateWindow(windowDict, metricKey, duration, now, sum)
          /\ hist' = [hist EXCEPT ![metricKey] = Append(@, <<now, sum>>)]
    /\ call' = [NoCall EXCEPT !.op = "UpdatePodListMetric", !.key = metricKey,
                              !.now = now, !.values = metricValues]
    /\ UNCHANGED <<variant, panicWindowDict, stableWindowDict, concVars, storeVars, driverVars, restVars>>

GetMetricValue(metricKey, now) ==
    /\ variant = "APA"
    /\ LET r == GetMetricValueResult(Lookup(windowDict, metricKey))
       IN call' = [NoCall EXCEPT !.op = "GetMetricValue", !.key = metricKey,
                                 !.now = now, !.stable = r.stable, !.panic = r.panic,
                                 !.err = r.err]
    /\ UNCHANGED <<variant, panicWindowDict, stableWindowDict, windowDict, hist, concVars, storeVars, driverVars, restVars>>

\* ------------------------------------------------------------ sequential use
NoFrame ==
    [op |-> "none", key |-> "k1", now |-> 0, value |-> 0, locked |-> FALSE,
     pobs |-> NotRead, sobs |-> NotRead,
     ret |-> [stable |-> MinusOne, panic |-> MinusOne, err |-> "nil"]]

\* A timer or ticker that was never made, and one that was stopped. Any other
\* value is the number of steps to its next firing (a timer at 0 has fired).
NilTimer == -1
Stopped == -2

\* The stop signal has not fired.
NoStop == [metrics |-> "none", trace |-> "none"]

\* The goroutines that call Init and Get.
Callers == {"c1", "c2", "c3"}
NoRet == [op |-> "none", store |-> "none", err |-> "nil", ready |-> FALSE]

\* The program before any Init call: var store = &Store{}, a fresh once.
SingletonFresh ==
    /\ store = "zero"
    /\ once = "fresh"
    /\ ipc = [p \in Callers |-> "idle"]
    /\ ret = [p \in Callers |-> NoRet]
    /\ constructed = 0
    /\ informers = FALSE
    /\ starts = [metrics |-> 0, trace |-> 0]
    /\ synced = {}

\* The program after one Init call has returned.
SingletonDone ==
    /\ store = "new"
    /\ once = "done"
    /\ ipc = [p \in Callers |-> "idle"]
    /\ ret = [p \in Callers |-> NoRet]
    /\ constructed = 1
    /\ informers = TRUE
    /\ starts = [metrics |-> 1, trace |-> 1]
    /\ synced = {}

\* A nil map, and a map that was made.
NilMap == [isNil |-> TRUE, entries |-> EmptyMap]
MadeMap(entries) == [isNil |-> FALSE, entries |-> entries]

NoFetchRet == [isNil |-> TRUE, metrics |-> << >>, err |-> "nil"]

\* No GetMetricsFromPods call was made.
FetchIdle ==
    /\ fpc = "idle"
    /\ fPods = << >>
    /\ fIdx = 0
    /\ fMetrics = << >>
    /\ fRet = NoFetchRet
    /\ fFetched = << >>

\* A store as New builds it: subscribers and metrics are not set.
AggregateIdle ==
    /\ subscribers = << >>
    /\ metrics = NilMap
    /\ apc = "idle"
    /\ aSub = 0
    /\ aMet = 0

RestIdle == SingletonFresh /\ FetchIdle /\ AggregateIdle

\* Init was not called: no driver runs.
DriversNotStarted ==
    /\ clock = 0
    /\ startClock = 0
    /\ stoppedIn = NoStop
    /\ stopCh = FALSE
    /\ redisClient = "nil"
    /\ numRequestsTraces = 0
    /\ mpc = "done"
    /\ inFlight = 0
    /\ ticker = NilTimer
    /\ tickerC = 0
    /\ overran = FALSE
    /\ dropped = FALSE
    /\ tpc = "done"
    /\ traceAlignmentTimer = NilTimer
    /\ traceTicker = NilTimer
    /\ traceTickerC = 0
    /\ tickerStart = -1
    /\ wrote = -1
    /\ wroteAt = -1

\* NewKPAMetricsClient / NewAPAMetricsClient: empty maps, the mutex free.
InitClient ==
    /\ variant \in {"KPA", "APA"}
    /\ panicWindowDict = EmptyMap
    /\ stableWindowDict = EmptyMap
    /\ windowDict = EmptyMap
    /\ hist = [k \in Keys |-> << >>]
    /\ call = NoCall
    /\ collectionsMutex = [writer |-> NoProc, readers |-> {}]
    /\ pc = [p \in Procs |-> "idle"]
    /\ frame = [p \in Procs |-> NoFrame]
    /\ StoreNew
    /\ prometheusApi = "nil"
    /\ DriversNotStarted
    /\ RestIdle

Init == InitClient

\* One caller at a time: every call runs to its return.
Next ==
    \/ \E k \in Keys, t \in Times, v \in Values : KPAUpdateMetricIntoWindow(k, t, v)
    \/ \E k \in Keys, t \in Times, l \in ValueLists : KPAUpdatePodListMetric(l, k, t)
    \/ \E k \in Keys, t \in Times : StableAndPanicMetrics(k, t)
    \/ \E k \in Keys, t \in Times, v \in Values : APAUpdateMetricIntoWindow(k, t, v)
    \/ \E k \in Keys, t \in Times, l \in ValueLists : APAUpdatePodListMetric(l, k, t)
    \/ \E k \in Keys, t \in Times : GetMetricValue(k, t)

Spec == Init /\ [][Next]_vars

\* ------------------------------------------------------------ concurrent use
\* Goroutines call the same methods concurrently. UpdatePodListMetric takes
\* collectionsMutex.Lock() and calls UpdateMetricIntoWindow under it (deferred
\* Unlock); UpdateMetricIntoWindow itself takes no lock; the two readers take
\* RLock() (deferred RUnlock). The two halves of an updateWindow call and each
\* map read with its Avg are one step each. A goroutine blocked in Lock()/RLock() is one whose call has not begun.
MutexFree == collectionsMutex.writer = NoProc /\ collectionsMutex.readers = {}
FirstUpdateStep == IF variant = "KPA" THEN "umw_panic" ELSE "umw_window"

GoUpdatePodListMetric(p, metricValues, metricKey, now) ==
    /\ pc[p] = "idle"
    /\ Updates < MaxUpdates
    /\ MutexFree
    /\ collectionsMutex' = [collectionsMutex EXCEPT !.writer = p]
    /\ frame' = [frame EXCEPT ![p] =
          [NoFrame EXCEPT !.op = "UpdatePodListMetric", !.key = metricKey, !.now = now,
                          !.value = sumMetricValue(metricValues), !.locked = TRUE]]
    /\ hist' = [hist EXCEPT ![metricKey] = Append(@, <<now, sumMetricValue(metricValues)>>)]
    /\ pc' = [pc EXCEPT ![p] = FirstUpdateStep]
    /\ UNCHANGED <<variant, panicWindowDict, stableWindowDict, windowDict, call, storeVars, driverVars, restVars>>

GoUpdateMetricIntoWindow(p, metricKey, now, metricValue) ==
    /\ pc[p] = "idle"
    /\ Updates < MaxUpdates
    /\ frame' = [frame EXCEPT ![p] =
          [NoFrame EXCEPT !.op = "UpdateMetricIntoWindow", !.key = metricKey, !.now = now,
                          !.value = metricValue]]
    /\ hist' = [hist EXCEPT ![metricKey] = Append(@, <<now, metricValue>>)]
    /\ pc' = [pc EXCEPT ![p] = FirstUpdateStep]
    /\ UNCHANGED <<variant, panicWindowDict, stableWindowDict, windowDict, call, collectionsMutex, storeVars, driverVars, restVars>>

\* Where an update goes after its last updateWindow: back to UpdatePodListMetric's
\* deferred Unlock, or straight to its caller.
AfterUpdate(p) == IF frame[p].locked THEN "upl_unlock" ELSE "idle"

\* updateWindow(c.panicWindowDict, c.panicDuration), first half
CreatePanicStep(p) ==
    /\ pc[p] = "umw_panic"
    /\ panicWindowDict' = createWindow(panicWindowDict, frame[p].key, panicDuration)
    /\ pc' = [pc EXCEPT ![p] = "umw_panic_record"]
    /\ UNCHANGED <<variant, stableWindowDict, windowDict, hist, call, collectionsMutex, frame, storeVars, driverVars, restVars>>

\* updateWindow(c.panicWindowDict, c.panicDuration), window.Record
RecordPanicStep(p) ==
    /\ pc[p] = "umw_panic_record"
    /\ panicWindowDict' = recordWindow(panicWindowDict, frame[p].key, frame[p].now, frame[p].value)
    /\ pc' = [pc EXCEPT ![p] = "umw_stable"]
    /\ UNCHANGED <<variant, stableWindowDict, windowDict, hist, call, collectionsMutex, frame, storeVars, driverVars, restVars>>

\* updateWindow(c.stableWindowDict, c.stableDuration), first half
CreateStableStep(p) ==
    /\ pc[p] = "umw_stable"
    /\ stableWindowDict' = createWindow(stableWindowDict, frame[p].key, stableDuration)
    /\ pc' = [pc EXCEPT ![p] = "umw_stable_record"]
    /\ UNCHANGED <<variant, panicWindowDict, windowDict, hist, call, collectionsMutex, frame, storeVars, driverVars, restVars>>

\* updateWindow(c.stableWindowDict, c.stableDuration), window.Record; return nil
RecordStableStep(p) ==
    /\ pc[p] = "umw_stable_record"
    /\ stableWindowDict' = recordWindow(stableWindowDict, frame[p].key, frame[p].now, frame[p].value)
    /\ pc' = [pc EXCEPT ![p] = AfterUpdate(p)]
    /\ frame' = [frame EXCEPT ![p] = IF frame[p].locked THEN @ ELSE NoFrame]
    /\ UNCHANGED <<variant, panicWindowDict, windowDict, hist, call, collectionsMutex, storeVars, driverVars, restVars>>

\* updateWindow(c.windowDict, c.duration), first half
CreateWindowStep(p) ==
    /\ pc[p] = "umw_window"
    /\ windowDict' = createWindow(windowDict, frame[p].key, duration)
    /\ pc' = [pc EXCEPT ![p] = "umw_window_record"]
    /\ UNCHANGED <<variant, panicWindowDict, stableWindowDict, hist, call, collectionsMutex, frame, storeVars, driverVars, restVars>>

\* updateWindow(c.windowDict, c.duration), window.Record; return nil
RecordWindowStep(p) ==
    /\ pc[p] = "umw_window_record"
    /\ windowDict' = recordWindow(windowDict, frame[p].key, frame[p].now, frame[p].value)
    /\ pc' = [pc EXCEPT ![p] = AfterUpdate(p)]
    /\ frame' = [frame EXCEPT ![p] = IF frame[p].locked THEN @ ELSE NoFrame]
    /\ UNCHANGED <<variant, panicWindowDict, stableWindowDict, hist, call, collectionsMutex, storeVars, driverVars, restVars>>

\* defer c.collectionsMutex.Unlock()
UnlockStep(p) ==
    /\ pc[p] = "upl_unlock"
    /\ collectionsMutex' = [collectionsMutex EXCEPT !.writer = NoProc]
    /\ pc' = [pc EXCEPT ![p] = "idle"]
    /\ frame' = [frame EXCEPT ![p] = NoFrame]
    /\ UNCHANGED <<clientVars, storeVars, driverVars, restVars>>

\* c.collectionsMutex.RLock() of StableAndPanicMetrics / GetMetricValue
GoRead(p, metricKey, now) ==
    /\ pc[p] = "idle"
    /\ collectionsMutex.writer = NoProc
    /\ collectionsMutex' = [collectionsMutex EXCEPT !.readers = @ \cup {p}]
    /\ frame' = [frame EXCEPT ![p] =
          [NoFrame EXCEPT !.op = IF variant = "KPA" THEN "StableAndPanicMetrics"
                                 ELSE "GetMetricValue",
                          !.key = metricKey, !.now = now]]
    /\ pc' = [pc EXCEPT ![p] = IF variant = "KPA" THEN "spm_panic" ELSE "gmv_window"]
    /\ UNCHANGED <<clientVars, storeVars, driverVars, restVars>>

\* panicWindow, exists := c.panicWindowDict[metricKey]; panicWindow.Avg()
ReadPanicStep(p) ==
    /\ pc[p] = "spm_panic"
    /\ LET pobs == Lookup(panicWindowDict, frame[p].key)
       IN IF PanicReadFails(pobs)
          THEN /\ frame' = [frame EXCEPT ![p].pobs = pobs,
                                         ![p].ret = StableAndPanicResult(pobs, NotRead)]
               /\ pc' = [pc EXCEPT ![p] = "read_ret"]
          ELSE /\ frame' = [frame EXCEPT ![p].pobs = pobs]
               /\ pc' = [pc EXCEPT ![p] = "spm_stable"]
    /\ UNCHANGED <<clientVars, collectionsMutex, storeVars, driverVars, restVars>>

\* stableWindow, exists := c.stableWindowDict[metricKey]; stableWindow.Avg()
ReadStableStep(p) ==
    /\ pc[p] = "spm_stable"
    /\ LET sobs == Lookup(stableWindowDict, frame[p].key)
       IN frame' = [frame EXCEPT ![p].sobs = sobs,
                                 ![p].ret = StableAndPanicResult(frame[p].pobs, sobs)]
    /\ pc' = [pc EXCEPT ![p] = "read_ret"]
    /\ UNCHANGED <<clientVars, collectionsMutex, storeVars, driverVars, restVars>>

\* window, exists := c.windowDict[metricKey]; window.Avg()
ReadWindowStep(p) ==
    /\ pc[p] = "gmv_window"
    /\ LET obs == Lookup(windowDict, frame[p].key)
       IN frame' = [frame EXCEPT ![p].pobs = obs, ![p].ret = GetMetricValueResult(obs)]
    /\ pc' = [pc EXCEPT ![p] = "read_ret"]
    /\ UNCHANGED <<clientVars, collectionsMutex, storeVars, driverVars, restVars>>

\* defer c.collectionsMutex.RUnlock(); the call returns frame[p].ret
ReadReturnStep(p) ==
    /\ pc[p] = "read_ret"
    /\ collectionsMutex' = [collectionsMutex EXCEPT !.readers = @ \ {p}]
    /\ pc' = [pc EXCEPT ![p] = "idle"]
    /\ frame' = [frame EXCEPT ![p] = NoFrame]
    /\ UNCHANGED <<clientVars, storeVars, driverVars, restVars>>

ConcTimes == {0, Second}
ConcValues == {1}
ConcLists == {<<1, 3>>}

NextConc ==
    \/ \E p \in Procs, k \in Keys, t \in ConcTimes, l \in ConcLists : GoUpdatePodListMetric(p, l, k, t)
    \/ \E p \in Procs, k \in Keys, t \in ConcTimes, v \in ConcValues : GoUpdateMetricIntoWindow(p, k, t, v)
    \/ \E p \in Procs : CreatePanicStep(p)
    \/ \E p \in Procs : RecordPanicStep(p)
    \/ \E p \in Procs : CreateStableStep(p)
    \/ \E p \in Procs : RecordStableStep(p)
    \/ \E p \in Procs : CreateWindowStep(p)
    \/ \E p \in Procs : RecordWindowStep(p)
    \/ \E p \in Procs : UnlockStep(p)
    \/ \E p \in Procs, k \in Keys, t \in ConcTimes : GoRead(p, k, t)
    \/ \E p \in Procs : ReadPanicStep(p)
    \/ \E p \in Procs : ReadStableStep(p)
    \/ \E p \in Procs : ReadWindowStep(p)
    \/ \E p \in Procs : ReadReturnStep(p)

SpecConc == InitClient /\ [][NextConc]_vars

\* ------------------------------------------------------------ store: refresh
\* The client variables stay as constructed while the store runs.
storeFrame == UNCHANGED <<clientVars, concVars, driverVars, restVars>>

Value(kind) == [kind |-> kind, at |-> cycle]

\* utils.FilterReadyPods(c.Pods)
FilterReadyPods(pods) == {p \in DOMAIN pods : pods[p].ready}

\* A variant of the row check that gives the pod a fresh row in every cycle.
EnsureRowFresh(m, podName) == MapPut(m, podName, EmptyMap)

\* if len(m[podName]) == 0 { m[podName] = map{} }
EnsureRow(m, podName) ==
    IF podName \in DOMAIN m /\ DOMAIN m[podName] # {} THEN m ELSE MapPut(m, podName, EmptyMap)

\* A variant of updatePodRecordLocked that checks the model name only after
\* the write.
updatePodRecordLockedWriteFirst(pm, pmm, podName, modelName, metricName, scope, metricValue) ==
    IF scope = PodMetricScope
    THEN [err |-> IF modelName # "" THEN "ScopeMismatch" ELSE "nil",
          PodMetrics |-> MapPut(pm, podName, MapPut(pm[podName], metricName, metricValue)),
          PodModelMetrics |-> pmm]
    ELSE IF scope = PodModelMetricScope
    THEN LET row == IF modelName \in DOMAIN pmm[podName] THEN pmm[podName][modelName]
                    ELSE EmptyMap
         IN [err |-> IF modelName = "" THEN "ScopeMismatch" ELSE "nil",
             PodMetrics |-> pm,
             PodModelMetrics |->
                 MapPut(pmm, podName,
                        MapPut(pmm[podName], modelName, MapPut(row, metricName, metricValue)))]
    ELSE [err |-> "ScopeUnsupported", PodMetrics |-> pm, PodModelMetrics |-> pmm]

\* updatePodRecordLocked: the error it returns and the two tables after it. A
\* write into a row that was never made is Go's nil-map panic.
updatePodRecordLocked(pm, pmm, podName, modelName, metricName, scope, metricValue) ==
    IF scope = PodMetricScope
    THEN IF modelName # ""
         THEN [err |-> "ScopeMismatch", PodMetrics |-> pm, PodModelMetrics |-> pmm]
         ELSE IF podName \notin DOMAIN pm
         THEN [err |-> "panic", PodMetrics |-> pm, PodModelMetrics |-> pmm]
         ELSE [err |-> "nil",
               PodMetrics |-> MapPut(pm, podName, MapPut(pm[podName], metricName, metricValue)),
               PodModelMetrics |-> pmm]
    ELSE IF scope = PodModelMetricScope
    THEN IF modelName = ""
         THEN [err |-> "ScopeMismatch", PodMetrics |-> pm, PodModelMetrics |-> pmm]
         ELSE IF podName \notin DOMAIN pmm
         THEN [err |-> "panic", PodMetrics |-> pm, PodModelMetrics |-> pmm]
         ELSE LET row == IF modelName \in DOMAIN pmm[podName] /\ DOMAIN pmm[podName][modelName] # {}
                         THEN pmm[podName][modelName] ELSE EmptyMap
              IN [err |-> "nil", PodMetrics |-> pm,
                  PodModelMetrics |->
                      MapPut(pmm, podName,
                             MapPut(pmm[podName], modelName, MapPut(row, metricName, metricValue)))]
    ELSE [err |-> "ScopeUnsupported", PodMetrics |-> pm, PodModelMetrics |-> pmm]

\* One updatePodRecordLocked call of the pod being updated, as a step's effect.
RecordCall(modelName, metricName, kind) ==
    LET r == updatePodRecordLocked(PodMetrics, PodModelMetrics, cur.pod, modelName,
                                   metricName, MetricScopeOf(metricName), Value(kind))
    IN /\ PodMetrics' = r.PodMetrics
       /\ PodModelMetrics' = r.PodModelMetrics
       /\ rec' = [pod |-> cur.pod, model |-> modelName, metric |-> metricName,
                  scope |-> MetricScopeOf(metricName), value |-> Value(kind), err |-> r.err]
       /\ offered' = offered \cup {[pod |-> cur.pod, model |-> modelName, metric |-> metricName]}

NoRecordCall == /\ rec' = NoRec /\ UNCHANGED <<PodMetrics, PodModelMetrics, offered>>

\* A variant that queries a pod-model metric for a model whether or not the
\* pod is mapped to it.
ModelsToQueryUnmapped(metricName) ==
    IF MetricScopeOf(metricName) = PodModelMetricScope THEN {"m1"} ELSE {}

\* The models updateMetricFromPromQLLocked queries for a metric of the pod.
ModelsToQuery(metricName) ==
    IF MetricScopeOf(metricName) = PodModelMetricScope /\ cur.pod \in DOMAIN PodToModelMapping
    THEN PodToModelMapping[cur.pod] ELSE {}

\* The informer's handlers (not in the sources): a pod joins or leaves the live
\* set, under the store's lock.
AddPod(p, ready, models) ==
    /\ mu = "free" /\ spc = "idle"
    /\ p \notin DOMAIN Pods
    /\ Pods' = MapPut(Pods, p, [ready |-> ready])
    /\ PodToModelMapping' = IF models = {} THEN PodToModelMapping
                            ELSE MapPut(PodToModelMapping, p, models)
    /\ UNCHANGED <<PodMetrics, PodModelMetrics, prometheusApi, mu, cycle, spc, readyPods,
                   todo, cur, idx, mtodo, visited, offered, queried, rec>>
    /\ storeFrame

DeletePod(p) ==
    /\ mu = "free" /\ spc = "idle"
    /\ p \in DOMAIN Pods
    /\ Pods' = MapRemove(Pods, p)
    /\ PodToModelMapping' = MapRemove(PodToModelMapping, p)
    /\ UNCHANGED <<PodMetrics, PodModelMetrics, prometheusApi, mu, cycle, spc, readyPods,
                   todo, cur, idx, mtodo, visited, offered, queried, rec>>
    /\ storeFrame

\* updatePodMetrics, from c.mu.Lock() to the check of readyPods.
BeginCycle ==
    /\ spc = "idle" /\ mu = "free"
    /\ cycle < MaxCycles
    /\ cycle' = cycle + 1
    /\ todo' = FilterReadyPods(Pods)
    /\ visited' = << >>
    /\ offered' = {}
    /\ queried' = << >>
    /\ rec' = NoRec
    /\ cur' = NoCur
    /\ IF FilterReadyPods(Pods) = {}
       THEN /\ mu' = "free" /\ spc' = "idle"
       ELSE /\ mu' = "refresh" /\ spc' = "next_pod"
    /\ readyPods' = FilterReadyPods(Pods)
    /\ UNCHANGED <<storeTables, idx, mtodo>>
    /\ storeFrame

\* A variant of the loop head that returns from updatePodMetrics when the
\* fetch fails.
VisitPodReturnOnError(pod, payload) ==
    /\ spc = "next_pod"
    /\ pod \in todo
    /\ PodMetrics' = EnsureRow(PodMetrics, pod)
    /\ PodModelMetrics' = EnsureRow(PodModelMetrics, pod)
    /\ cur' = [pod |-> pod, ok |-> payload # "nil", payload |-> payload]
    /\ visited' = Append(visited, <<pod, payload # "nil">>)
    /\ todo' = IF payload # "nil" THEN todo \ {pod} ELSE {}
    /\ spc' = IF payload # "nil" THEN "simple" ELSE "next_pod"
    /\ idx' = IF payload # "nil" THEN 1 ELSE 0
    /\ rec' = NoRec
    /\ offered' = {}
    /\ queried' = << >>
    /\ UNCHANGED <<Pods, PodToModelMapping, prometheusApi, mu, cycle, readyPods, mtodo>>
    /\ storeFrame

\* The head of the loop body: the pod's rows are made, and its metrics fetched.
\* A failed fetch is logged and leaves allMetrics empty.
VisitPod(pod, payload) ==
    /\ spc = "next_pod"
    /\ pod \in todo
    /\ PodMetrics' = EnsureRow(PodMetrics, pod)
    /\ PodModelMetrics' = EnsureRow(PodModelMetrics, pod)
    /\ cur' = [pod |-> pod, ok |-> payload # "nil", payload |-> payload]
    /\ visited' = Append(visited, <<pod, payload # "nil">>)
    /\ todo' = todo \ {pod}
    /\ spc' = "simple"
    /\ idx' = 1
    /\ rec' = NoRec
    /\ offered' = {}
    /\ queried' = << >>
    /\ UNCHANGED <<Pods, PodToModelMapping, prometheusApi, mu, cycle, readyPods, mtodo>>
    /\ storeFrame

\* Where the walk goes after name idx of a list of n names.
Advance(n, nextStage) ==
    IF idx < n THEN /\ idx' = idx + 1 /\ spc' = spc
    ELSE /\ idx' = (IF nextStage = "next_pod" THEN 0 ELSE 1) /\ spc' = nextStage

\* After the label metrics: `continue` without a query backend.
AfterLabelStage == IF prometheusApi = "nil" THEN "next_pod" ELSE "promql"

\* The model_name label of the payload's samples; "" when they have none.
SampleModel(payload) == IF payload = "labelled" THEN "m1" ELSE ""

\* One name of one of the three scraped families: the family is not in the
\* payload, or its sample does not parse, or its sample is recorded.
FamilyStep(stage, names, kind, nextStage) ==
    /\ spc = stage
    /\ \/ /\ cur.payload = "nil"
          /\ NoRecordCall
       \/ /\ cur.payload = "unparsable"
          /\ kind # "LabelValue"
          /\ NoRecordCall
       \/ /\ cur.payload # "nil"
          /\ cur.payload = "unparsable" => kind = "LabelValue"
          /\ RecordCall(SampleModel(cur.payload), names[idx], kind)
    /\ Advance(Len(names), nextStage)
    /\ mtodo' = IF idx = Len(names) /\ nextStage = "promql"
                THEN ModelsToQuery(prometheusMetricNames[1]) ELSE mtodo
    /\ UNCHANGED <<Pods, PodToModelMapping, prometheusApi, mu, cycle, readyPods, todo, cur, visited,
                   queried>>
    /\ storeFrame

updateSimpleMetricFromRawMetricsLocked ==
    FamilyStep("simple", counterGaugeMetricNames, "Simple", "histogram")

updateHistogramMetricFromRawMetricsLocked ==
    FamilyStep("histogram", histogramMetricNames, "Histogram", "label")

updateQueryLabelMetricFromRawMetricsLocked ==
    FamilyStep("label", labelQueryMetricNames, "LabelValue", AfterLabelStage)

\* queryUpdatePromQLMetricsLocked: the query fails and nothing is recorded, or
\* its result is recorded.
queryUpdatePromQLMetricsLocked(modelName, metricName) ==
    \/ /\ NoRecordCall
       /\ queried' = Append(queried, [model |-> modelName, metric |-> metricName, ok |-> FALSE])
    \/ /\ RecordCall(modelName, metricName, "Prometheus")
       /\ queried' = Append(queried, [model |-> modelName, metric |-> metricName, ok |-> TRUE])

\* updateMetricFromPromQLLocked: one query (queryUpdatePromQLMetricsLocked) of
\* the current metric, or the move to the next metric when none is left.
updateMetricFromPromQLLocked ==
    /\ spc = "promql"
    /\ LET metricName == prometheusMetricNames[idx]
           scope == MetricScopeOf(metricName)
           next == /\ Advance(Len(prometheusMetricNames), "next_pod")
                   /\ mtodo' = IF idx < Len(prometheusMetricNames)
                               THEN ModelsToQuery(prometheusMetricNames[idx + 1]) ELSE {}
       IN IF scope = PodMetricScope
          THEN /\ queryUpdatePromQLMetricsLocked("", metricName)
               /\ next
          ELSE IF scope = PodModelMetricScope /\ mtodo # {}
          THEN \E modelName \in mtodo :
                  /\ queryUpdatePromQLMetricsLocked(modelName, metricName)
                  /\ IF mtodo = {modelName} THEN next
                     ELSE /\ mtodo' = mtodo \ {modelName}
                          /\ UNCHANGED <<idx, spc>>
          ELSE /\ NoRecordCall
               /\ UNCHANGED queried
               /\ next
    /\ UNCHANGED <<Pods, PodToModelMapping, prometheusApi, mu, cycle, readyPods, todo, cur, visited>>
    /\ storeFrame

\* The loop is over: the deferred c.mu.Unlock().
EndCycle ==
    /\ spc = "next_pod"
    /\ todo = {}
    /\ mu' = "free"
    /\ spc' = "idle"
    /\ rec' = NoRec
    /\ cur' = NoCur
    /\ idx' = 0
    /\ readyPods' = {}
    /\ visited' = << >>
    /\ offered' = {}
    /\ queried' = << >>
    /\ UNCHANGED <<storeTables, cycle, todo, mtodo>>
    /\ storeFrame

InitStore ==
    /\ StoreNew
    /\ prometheusApi \in {"nil", "api"}
    /\ variant = "KPA"
    /\ panicWindowDict = EmptyMap
    /\ stableWindowDict = EmptyMap
    /\ windowDict = EmptyMap
    /\ hist = [k \in Keys |-> << >>]
    /\ call = NoCall
    /\ collectionsMutex = [writer |-> NoProc, readers |-> {}]
    /\ pc = [p \in Procs |-> "idle"]
    /\ frame = [p \in Procs |-> NoFrame]
    /\ DriversNotStarted
    /\ RestIdle

NextStore ==
    \/ \E p \in PodNames, ready \in BOOLEAN, models \in ModelSets : AddPod(p, ready, models)
    \/ \E p \in PodNames : DeletePod(p)
    \/ BeginCycle
    \/ \E p \in PodNames, payload \in Payloads : VisitPod(p, payload)
    \/ updateSimpleMetricFromRawMetricsLocked
    \/ updateHistogramMetricFromRawMetricsLocked
    \/ updateQueryLabelMetricFromRawMetricsLocked
    \/ updateMetricFromPromQLLocked
    \/ EndCycle

SpecStore == InitStore /\ [][NextStore]_vars

\* ------------------------------------------------------------ store: queries
\* The refresh cycle on a store whose pods the informer has already added,
\* each with no model mapping, one model or two.
QueryModelSets == {{}, {"m1"}, {"m1", "m2"}}

\* The live sets the cycle starts from: every pod, ready or not.
PodSets == [PodNames -> [ready : BOOLEAN]]

\* What the fetches of these cycles give: nothing, or labelled samples.
QueryPayloads == {"nil", "labelled"}

\* The mappings of a live set: a pod mapped to no model has no entry.
MappingsOf(pods) ==
    {[p \in {q \in DOMAIN f : f[q] # {}} |-> f[p]] : f \in [DOMAIN pods -> QueryModelSets]}

InitPromQL ==
    /\ Pods \in PodSets
    /\ PodToModelMapping \in MappingsOf(Pods)
    /\ PodMetrics = EmptyMap
    /\ PodModelMetrics = EmptyMap
    /\ prometheusApi \in {"nil", "api"}
    /\ mu = "free"
    /\ cycle = 0
    /\ spc = "idle"
    /\ readyPods = {}
    /\ todo = {}
    /\ cur = NoCur
    /\ idx = 0
    /\ mtodo = {}
    /\ visited = << >>
    /\ offered = {}
    /\ queried = << >>
    /\ rec = NoRec
    /\ variant = "KPA"
    /\ panicWindowDict = EmptyMap
    /\ stableWindowDict = EmptyMap
    /\ windowDict = EmptyMap
    /\ hist = [k \in Keys |-> << >>]
    /\ call = NoCall
    /\ collectionsMutex = [writer |-> NoProc, readers |-> {}]
    /\ pc = [p \in Procs |-> "idle"]
    /\ frame = [p \in Procs |-> NoFrame]
    /\ DriversNotStarted
    /\ RestIdle

NextPromQL ==
    \/ BeginCycle
    \/ \E p \in PodNames, payload \in QueryPayloads : VisitPod(p, payload)
    \/ updateSimpleMetricFromRawMetricsLocked
    \/ updateHistogramMetricFromRawMetricsLocked
    \/ updateQueryLabelMetricFromRawMetricsLocked
    \/ updateMetricFromPromQLLocked
    \/ EndCycle

SpecPromQL == InitPromQL /\ [][NextPromQL]_vars

\* ------------------------------------------------------------ drivers
\* Init's two goroutines. Time passes in steps of the wall clock, Second steps
\* to the second; the clock is
\* kept modulo two trace intervals. The lengths below are in clock steps.
RequestTraceWriteInterval == 4
MaxRequestTraceIntervalOffset == 1
podMetricRefreshInterval == 2
ClockModulus == 2 * RequestTraceWriteInterval
StartTimes == 0 .. (ClockModulus - 1)

\* time.Now() % RequestTraceWriteInterval
tickerOffset(now) == now % RequestTraceWriteInterval
\* A variant of the alignment delay that waits a whole interval.
AlignmentDelayWholeInterval(offset) == RequestTraceWriteInterval

\* time.NewTimer(RequestTraceWriteInterval - tickerOffset)
AlignmentDelay(offset) == RequestTraceWriteInterval - offset

\* A variant of the ticker whose channel keeps every tick.
SendTickQueued(ch) == ch + 1

\* A ticker's send on its channel, which holds one tick: a tick that finds the
\* channel full is dropped.
SendTick(ch) == IF ch < 1 THEN ch + 1 ELSE ch

Running(t) == t > 0
\* One step of a ticker of the given period.
TickerStep(t, period) == IF ~Running(t) THEN t ELSE IF t = 1 THEN period ELSE t - 1
TickerFires(t) == t = 1

driverFrame == UNCHANGED <<clientVars, concVars, storeVars, restVars>>

\* The state Init(config, stopCh, redisClient) leaves at clock start: both
\* goroutines started, initTraceCache's timer or ticker made.
DriversStarted(start, redis) ==
    /\ clock = start
    /\ startClock = start
    /\ stoppedIn = NoStop
    /\ stopCh = FALSE
    /\ redisClient = redis
    /\ numRequestsTraces \in {0, 1}
    /\ mpc = "select"
    /\ inFlight = 0
    /\ ticker = podMetricRefreshInterval
    /\ tickerC = 0
    /\ overran = FALSE
    /\ dropped = FALSE
    /\ tpc = "start"
    /\ traceTickerC = 0
    /\ wrote = -1
    /\ wroteAt = -1
    /\ IF tickerOffset(start) > MaxRequestTraceIntervalOffset
       THEN /\ traceAlignmentTimer = AlignmentDelay(tickerOffset(start))
            /\ traceTicker = NilTimer
            /\ tickerStart = -1
       ELSE /\ traceAlignmentTimer = NilTimer
            /\ traceTicker = RequestTraceWriteInterval
            /\ tickerStart = start

\* The trace goroutine is about to take the tick of the alignment timer.
AlignmentDue == redisClient # "nil" /\ tpc \in {"start", "aligning"} /\ traceAlignmentTimer = 0

\* The wall clock advances one step; timers and tickers that are due fire. The
\* goroutine waiting on the alignment timer takes its tick without delay.
Tock ==
    /\ ~AlignmentDue
    /\ clock' = (clock + 1) % ClockModulus
    /\ ticker' = TickerStep(ticker, podMetricRefreshInterval)
    /\ tickerC' = IF TickerFires(ticker) THEN SendTick(tickerC) ELSE tickerC
    /\ overran' = (overran \/ (TickerFires(ticker) /\ mpc = "refresh"))
    /\ dropped' = (dropped \/ (TickerFires(ticker) /\ tickerC >= 1))
    /\ traceAlignmentTimer' = IF Running(traceAlignmentTimer) THEN traceAlignmentTimer - 1
                              ELSE traceAlignmentTimer
    /\ traceTicker' = TickerStep(traceTicker, RequestTraceWriteInterval)
    /\ traceTickerC' = IF TickerFires(traceTicker) THEN SendTick(traceTickerC) ELSE traceTickerC
    /\ UNCHANGED <<stopCh, redisClient, numRequestsTraces, mpc, inFlight, tpc, stoppedIn, wroteAt, startClock,
                   tickerStart, wrote>>
    /\ driverFrame

\* close(stopCh)
Stop ==
    /\ ~stopCh
    /\ stopCh' = TRUE
    /\ stoppedIn' = [metrics |-> mpc, trace |-> tpc]
    /\ UNCHANGED <<clock, redisClient, numRequestsTraces, mpc, inFlight, ticker, tickerC,
                   overran, dropped, tpc, traceAlignmentTimer, traceTicker, traceTickerC,
                   wroteAt, startClock, tickerStart, wrote>>
    /\ driverFrame

\* The gateway counts a traced request, or the counter is reset.
SetTraces(n) ==
    /\ n # numRequestsTraces
    /\ numRequestsTraces' = n
    /\ UNCHANGED <<clock, stopCh, redisClient, mpc, inFlight, ticker, tickerC, overran,
                   dropped, tpc, traceAlignmentTimer, traceTicker, traceTickerC, stoppedIn, wroteAt, startClock,
                   tickerStart, wrote>>
    /\ driverFrame

\* initMetricsCache: case <-ticker.C, up to the call of updatePodMetrics.
MetricsTick ==
    /\ mpc = "select"
    /\ tickerC > 0
    /\ tickerC' = tickerC - 1
    /\ mpc' = "refresh"
    /\ inFlight' = inFlight + 1
    /\ overran' = FALSE
    /\ dropped' = FALSE
    /\ UNCHANGED <<clock, stopCh, redisClient, numRequestsTraces, ticker, tpc,
                   traceAlignmentTimer, traceTicker, traceTickerC, stoppedIn, wroteAt, startClock, tickerStart,
                   wrote>>
    /\ driverFrame

\* updatePodMetrics, updateModelMetrics and updateDebugInfo have returned.
MetricsCycleEnd ==
    /\ inFlight > 0
    /\ inFlight' = inFlight - 1
    /\ mpc' = IF mpc = "refresh" THEN "select" ELSE mpc
    /\ UNCHANGED <<clock, stopCh, redisClient, numRequestsTraces, ticker, tickerC, overran,
                   dropped, tpc, traceAlignmentTimer, traceTicker, traceTickerC, stoppedIn, wroteAt, startClock,
                   tickerStart, wrote>>
    /\ driverFrame

\* A variant of the stop case that stops the ticker and goes on selecting.
MetricsStopNoReturn ==
    /\ mpc = "select"
    /\ stopCh
    /\ Running(ticker)
    /\ ticker' = Stopped
    /\ UNCHANGED <<clock, stopCh, redisClient, numRequestsTraces, mpc, inFlight, tickerC,
                   overran, dropped, tpc, traceAlignmentTimer, traceTicker, traceTickerC,
                   stoppedIn, wroteAt, startClock, tickerStart, wrote>>
    /\ driverFrame

\* initMetricsCache: case <-stopCh
MetricsStop ==
    /\ mpc = "select"
    /\ stopCh
    /\ ticker' = Stopped
    /\ mpc' = "done"
    /\ UNCHANGED <<clock, stopCh, redisClient, numRequestsTraces, inFlight, tickerC, overran,
                   dropped, tpc, traceAlignmentTimer, traceTicker, traceTickerC, stoppedIn, wroteAt, startClock,
                   tickerStart, wrote>>
    /\ driverFrame

\* A variant of the trace goroutine's start that does not look at redisClient.
TraceStartNoNilCheck ==
    /\ tpc = "start"
    /\ tpc' = IF traceAlignmentTimer # NilTimer THEN "aligning" ELSE "ticking"
    /\ UNCHANGED <<clock, stopCh, redisClient, numRequestsTraces, mpc, inFlight, ticker,
                   tickerC, overran, dropped, traceAlignmentTimer, traceTicker, traceTickerC,
                   stoppedIn, wroteAt, startClock, tickerStart, wrote>>
    /\ driverFrame

\* initTraceCache's goroutine, from its start to its first wait.
TraceStart ==
    /\ tpc = "start"
    /\ tpc' = IF redisClient = "nil" THEN "done"
              ELSE IF traceAlignmentTimer # NilTimer THEN "aligning" ELSE "ticking"
    /\ UNCHANGED <<clock, stopCh, redisClient, numRequestsTraces, mpc, inFlight, ticker,
                   tickerC, overran, dropped, traceAlignmentTimer, traceTicker, traceTickerC,
                   stoppedIn, wroteAt, startClock, tickerStart, wrote>>
    /\ driverFrame

\* <-traceAlignmentTimer.C, then the ticker is made.
TraceAligned ==
    /\ tpc = "aligning"
    /\ traceAlignmentTimer = 0
    /\ traceAlignmentTimer' = NilTimer
    /\ traceTicker' = RequestTraceWriteInterval
    /\ tickerStart' = clock
    /\ tpc' = "ticking"
    /\ UNCHANGED <<clock, stopCh, redisClient, numRequestsTraces, mpc, inFlight, ticker,
                   tickerC, overran, dropped, traceTickerC, stoppedIn, wroteAt, startClock, wrote>>
    /\ driverFrame

\* time.Now().Unix(): the whole seconds of the clock.
Unix(now) == now \div Second

\* A variant of the rounding that takes the interval for a number of seconds.
roundTNoConversion(t) == t - (t % RequestTraceWriteInterval)

\* t - t%int64(RequestTraceWriteInterval/time.Second)
roundT(t) == t - (t % (RequestTraceWriteInterval \div Second))

\* case <-traceTicker.C: nothing to write, or writeRequestTraceToStorage(roundT).
TraceTick ==
    /\ tpc = "ticking"
    /\ traceTickerC > 0
    /\ traceTickerC' = traceTickerC - 1
    /\ IF numRequestsTraces = 0
       THEN UNCHANGED <<wrote, wroteAt>>
       ELSE /\ wrote' = roundT(Unix(clock))
            /\ wroteAt' = Unix(clock)
    /\ UNCHANGED <<clock, stopCh, redisClient, numRequestsTraces, mpc, inFlight, ticker,
                   tickerC, overran, dropped, tpc, traceAlignmentTimer, traceTicker,
                   stoppedIn, startClock, tickerStart>>
    /\ driverFrame

\* initTraceCache: case <-stopCh
TraceStop ==
    /\ tpc = "ticking"
    /\ stopCh
    /\ traceTicker' = Stopped
    /\ tpc' = "done"
    /\ UNCHANGED <<clock, stopCh, redisClient, numRequestsTraces, mpc, inFlight, ticker,
                   tickerC, overran, dropped, traceAlignmentTimer, traceTickerC, stoppedIn, wroteAt, startClock,
                   tickerStart, wrote>>
    /\ driverFrame

InitDrivers ==
    /\ StoreNew
    /\ prometheusApi = "nil"
    /\ variant = "KPA"
    /\ panicWindowDict = EmptyMap
    /\ stableWindowDict = EmptyMap
    /\ windowDict = EmptyMap
    /\ hist = [k \in Keys |-> << >>]
    /\ call = NoCall
    /\ collectionsMutex = [writer |-> NoProc, readers |-> {}]
    /\ pc = [p \in Procs |-> "idle"]
    /\ frame = [p \in Procs |-> NoFrame]
    /\ \E start \in StartTimes, redis \in {"nil", "redis"} : DriversStarted(start, redis)
    /\ SingletonDone
    /\ FetchIdle
    /\ AggregateIdle

NextDrivers ==
    \/ Tock
    \/ Stop
    \/ \E n \in {0, 1} : SetTraces(n)
    \/ MetricsTick
    \/ MetricsCycleEnd
    \/ MetricsStop
    \/ TraceStart
    \/ TraceAligned
    \/ TraceTick
    \/ TraceStop

SpecDrivers == InitDrivers /\ [][NextDrivers]_vars

\* Time passes, a call that was made returns, a goroutine that can run does,
\* and a select whose stop case is ready again and again takes it at last.
SpecDriversFair ==
    /\ SpecDrivers
    /\ WF_vars(Tock)
    /\ WF_vars(MetricsCycleEnd)
    /\ WF_vars(TraceStart)
    /\ WF_vars(TraceAligned)
    /\ SF_vars(MetricsStop)
    /\ SF_vars(TraceStop)

\* ------------------------------------------------------------ singleton
singletonFrame == UNCHANGED <<clientVars, concVars, storeVars, driverVars, fetchVars, aggVars>>

\* panic(err) in Init ends the program.
Alive == \A p \in Callers : ipc[p] # "panic"

\* The informers are set up and both drivers run.
Ready == informers /\ starts.metrics >= 1 /\ starts.trace >= 1

\* What a read of the global store by caller p can give. Get reads it with no
\* synchronization; a caller that has not returned from once.Do since the
\* store was assigned may see the old value or the new one.
Visible(p) == IF store = "zero" \/ p \in synced THEN {store} ELSE {"zero", "new"}

\* Init: once.Do, up to the start of its function or its wait for the caller
\* that is running it.
CallInit(p) ==
    /\ Alive
    /\ ipc[p] = "idle"
    /\ IF once = "fresh"
       THEN /\ once' = "running"
            /\ ipc' = [ipc EXCEPT ![p] = "new"]
            /\ UNCHANGED synced
       ELSE IF once = "running"
       THEN /\ ipc' = [ipc EXCEPT ![p] = "blocked"]
            /\ UNCHANGED <<once, synced>>
       ELSE /\ ipc' = [ipc EXCEPT ![p] = "init_ret"]
            /\ synced' = synced \cup {p}
            /\ UNCHANGED once
    /\ UNCHANGED <<store, ret, constructed, informers, starts>>
    /\ singletonFrame

\* store = New(redisClient, initPrometheusAPI())
InitNew(p) ==
    /\ Alive
    /\ ipc[p] = "new"
    /\ store' = "new"
    /\ constructed' = constructed + 1
    /\ ipc' = [ipc EXCEPT ![p] = "informers"]
    /\ UNCHANGED <<once, ret, informers, starts, synced>>
    /\ singletonFrame

\* initCacheInformers(store, config, stopCh): it succeeds, or Init panics and
\* once counts the call as made.
InitInformers(p, ok) ==
    /\ Alive
    /\ ipc[p] = "informers"
    /\ IF ok
       THEN /\ informers' = TRUE
            /\ ipc' = [ipc EXCEPT ![p] = "metrics"]
            /\ UNCHANGED once
       ELSE /\ ipc' = [ipc EXCEPT ![p] = "panic"]
            /\ once' = "done"
            /\ UNCHANGED informers
    /\ UNCHANGED <<store, ret, constructed, starts, synced>>
    /\ singletonFrame

\* initMetricsCache(store, stopCh)
InitMetricsCache(p) ==
    /\ Alive
    /\ ipc[p] = "metrics"
    /\ starts' = [starts EXCEPT !.metrics = @ + 1]
    /\ ipc' = [ipc EXCEPT ![p] = "trace"]
    /\ UNCHANGED <<store, once, ret, constructed, informers, synced>>
    /\ singletonFrame

\* initTraceCache(redisClient, stopCh), and the end of once.Do's function.
InitTraceCache(p) ==
    /\ Alive
    /\ ipc[p] = "trace"
    /\ starts' = [starts EXCEPT !.trace = @ + 1]
    /\ once' = "done"
    /\ ipc' = [ipc EXCEPT ![p] = "init_ret"]
    /\ synced' = synced \cup {p}
    /\ UNCHANGED <<store, ret, constructed, informers>>
    /\ singletonFrame

\* once.Do returns in a caller that waited for the function to end.
InitUnblock(p) ==
    /\ Alive
    /\ ipc[p] = "blocked"
    /\ once = "done"
    /\ ipc' = [ipc EXCEPT ![p] = "init_ret"]
    /\ synced' = synced \cup {p}
    /\ UNCHANGED <<store, once, ret, constructed, informers, starts>>
    /\ singletonFrame

\* return store
InitReturn(p) ==
    /\ Alive
    /\ ipc[p] = "init_ret"
    /\ ret' = [ret EXCEPT ![p] = [op |-> "Init", store |-> store, err |-> "nil", ready |-> Ready]]
    /\ ipc' = [ipc EXCEPT ![p] = "idle"]
    /\ UNCHANGED <<store, once, constructed, informers, starts, synced>>
    /\ singletonFrame

\* Get: the read of store.initialized, then the read of store it returns.
Get(p) ==
    /\ Alive
    /\ ipc[p] = "idle"
    /\ \E checked \in Visible(p), returned \in Visible(p) :
          ret' = [ret EXCEPT ![p] =
                    IF checked = "zero"
                    THEN [op |-> "Get", store |-> "none", err |-> "NotInitialized",
                          ready |-> FALSE]
                    ELSE [op |-> "Get", store |-> returned, err |-> "nil", ready |-> Ready]]
    /\ UNCHANGED <<store, once, ipc, constructed, informers, starts, synced>>
    /\ singletonFrame

InitSingleton ==
    /\ SingletonFresh
    /\ FetchIdle
    /\ AggregateIdle
    /\ DriversNotStarted
    /\ StoreNew
    /\ prometheusApi = "nil"
    /\ variant = "KPA"
    /\ panicWindowDict = EmptyMap
    /\ stableWindowDict = EmptyMap
    /\ windowDict = EmptyMap
    /\ hist = [k \in Keys |-> << >>]
    /\ call = NoCall
    /\ collectionsMutex = [writer |-> NoProc, readers |-> {}]
    /\ pc = [p \in Procs |-> "idle"]
    /\ frame = [p \in Procs |-> NoFrame]

NextSingleton ==
    \/ \E p \in Callers : CallInit(p)
    \/ \E p \in Callers : InitNew(p)
    \/ \E p \in Callers, ok \in BOOLEAN : InitInformers(p, ok)
    \/ \E p \in Callers : InitMetricsCache(p)
    \/ \E p \in Callers : InitTraceCache(p)
    \/ \E p \in Callers : InitUnblock(p)
    \/ \E p \in Callers : InitReturn(p)
    \/ \E p \in Callers : Get(p)

SpecSingleton == InitSingleton /\ [][NextSingleton]_vars

\* ------------------------------------------------------------ pod metric fetch
MaxPods == 3

\* The pods lists of a call, and what c.fetcher.FetchPodMetrics gives for a pod.
PodLists == UNION {[1 .. n -> PodNames] : n \in 0 .. MaxPods}
FetchResults ==
    {[metric |-> v, err |-> "nil"] : v \in {1, 2}} \cup {[metric |-> 0, err |-> "FetchError"]}

fetchFrame == UNCHANGED <<clientVars, concVars, storeVars, driverVars, singletonVars, aggVars>>

\* A variant of the loop body that goes on to the next pod when a fetch fails.
LoopBodySkipFailed(m, result) ==
    [return |-> FALSE, ret |-> NoFetchRet,
     metrics |-> IF result.err # "nil" THEN m ELSE Append(m, result.metric)]

\* The body of the range loop after the fetch: return nil, err, or append.
LoopBody(m, result) ==
    IF result.err # "nil"
    THEN [return |-> TRUE, ret |-> [isNil |-> TRUE, metrics |-> << >>, err |-> result.err],
          metrics |-> m]
    ELSE [return |-> FALSE, ret |-> NoFetchRet, metrics |-> Append(m, result.metric)]

\* GetMetricsFromPods is called: metrics := make([]float64, 0, len(pods)).
CallGetMetricsFromPods(pods) ==
    /\ fpc \in {"idle", "done"}
    /\ fpc' = "loop"
    /\ fPods' = pods
    /\ fIdx' = 1
    /\ fMetrics' = << >>
    /\ fRet' = NoFetchRet
    /\ fFetched' = << >>
    /\ fetchFrame

\* One turn of the loop: the pod's fetch and what follows it.
FetchPodMetrics(result) ==
    /\ fpc = "loop"
    /\ fIdx <= Len(fPods)
    /\ LET b == LoopBody(fMetrics, result)
       IN /\ fMetrics' = b.metrics
          /\ fRet' = b.ret
          /\ fpc' = IF b.return THEN "done" ELSE "loop"
    /\ fIdx' = fIdx + 1
    /\ fFetched' = Append(fFetched, [pod |-> fPods[fIdx], metric |-> result.metric,
                                     err |-> result.err])
    /\ UNCHANGED fPods
    /\ fetchFrame

\* return metrics, nil
GetMetricsFromPodsReturn ==
    /\ fpc = "loop"
    /\ fIdx > Len(fPods)
    /\ fRet' = [isNil |-> FALSE, metrics |-> fMetrics, err |-> "nil"]
    /\ fpc' = "done"
    /\ UNCHANGED <<fPods, fIdx, fMetrics, fFetched>>
    /\ fetchFrame

InitFetch == InitSingleton

NextFetch ==
    \/ \E pods \in PodLists : CallGetMetricsFromPods(pods)
    \/ \E result \in FetchResults : FetchPodMetrics(result)
    \/ GetMetricsFromPodsReturn

SpecFetch == InitFetch /\ [][NextFetch]_vars

\* ------------------------------------------------------------ metric aggregation
MaxSubscribers == 2
MaxSubscribed == 2

\* What a subscriber's SubscribedMetrics() gives.
MetricNames == {"a", "b"}
SubscribedLists == UNION {[1 .. n -> MetricNames] : n \in 0 .. MaxSubscribed}

aggFrame == UNCHANGED <<clientVars, concVars, storeVars, driverVars, singletonVars, fetchVars>>

\* A subscriber joins the store's list between two calls (the code that
\* appends to Store.subscribers is not in the sources).
Subscribe(list) ==
    /\ apc \in {"idle", "done"}
    /\ Len(subscribers) < MaxSubscribers
    /\ subscribers' = Append(subscribers, list)
    /\ apc' = "idle"
    /\ UNCHANGED <<metrics, aSub, aMet>>
    /\ aggFrame

\* aggregateMetrics is called.
CallAggregateMetrics ==
    /\ apc \in {"idle", "done"}
    /\ apc' = "loop"
    /\ aSub' = 1
    /\ aMet' = 1
    /\ UNCHANGED <<subscribers, metrics>>
    /\ aggFrame

\* c.metrics[metric] = "yes": an assignment to an entry of a nil map panics.
MapAssign(m, k, v) ==
    IF m.isNil THEN [panic |-> TRUE, map |-> m]
    ELSE [panic |-> FALSE, map |-> MadeMap(MapPut(m.entries, k, v))]

\* One turn of the loops of aggregateMetrics: the next subscriber, or one of
\* its metrics, or the return.
aggregateMetrics ==
    /\ apc = "loop"
    /\ IF aSub > Len(subscribers)
       THEN /\ apc' = "done"
            /\ UNCHANGED <<metrics, aSub, aMet>>
       ELSE IF aMet > Len(subscribers[aSub])
       THEN /\ aSub' = aSub + 1
            /\ aMet' = 1
            /\ UNCHANGED <<metrics, apc>>
       ELSE LET metric == subscribers[aSub][aMet]
            IN IF metric \in DOMAIN metrics.entries
               THEN /\ aMet' = aMet + 1
                    /\ UNCHANGED <<metrics, apc, aSub>>
               ELSE LET w == MapAssign(metrics, metric, "yes")
                    IN /\ metrics' = w.map
                       /\ apc' = IF w.panic THEN "panic" ELSE "loop"
                       /\ aMet' = IF w.panic THEN aMet ELSE aMet + 1
                       /\ UNCHANGED aSub
    /\ UNCHANGED subscribers
    /\ aggFrame

InitAggregate == InitSingleton

NextAggregate ==
    \/ \E list \in SubscribedLists : Subscribe(list)
    \/ CallAggregateMetrics
    \/ aggregateMetrics

SpecAggregate == InitAggregate /\ [][NextAggregate]_vars

\* ------------------------------------------------------------ claims (concurrent client)
WriterSteps == {"umw_panic", "umw_panic_record", "umw_stable", "umw_stable_record",
                "umw_window", "umw_window_record"}
ReaderSteps == {"spm_panic", "spm_stable", "gmv_window"}

\* Whether a window, as a reader found it, holds the sample (t, v).
Holds(obs, t, v) ==
    /\ obs.exists
    /\ LET w == obs.window
       IN /\ w.duration > 0
          /\ BucketIndex(w, t) \in DOMAIN w.buckets
          /\ w.buckets[BucketIndex(w, t)] = [start |-> BucketStart(w, t), value |-> v]

\* C2 (as claimed): a StableAndPanicMetrics call that read both windows of its
\* key never finds a sample of an update in one of them and not in the other.
C2_UpdateVisibleInBothWindows ==
    \A p \in Procs :
        (/\ pc[p] = "read_ret"
         /\ frame[p].op = "StableAndPanicMetrics"
         /\ ~PanicReadFails(frame[p].pobs))
        => \A i \in 1 .. Len(hist[frame[p].key]) :
              LET u == hist[frame[p].key][i]
              IN Holds(frame[p].pobs, u[1], u[2]) <=> Holds(frame[p].sobs, u[1], u[2])

\* C3 (as claimed): whoever is about to create, record into or read a window
\* holds collectionsMutex, a writer exclusively and a reader shared, and no
\* writer is inside the maps together with another writer or a reader.
C3_MapAccessUnderLock ==
    /\ \A p \in Procs :
          /\ pc[p] \in WriterSteps => collectionsMutex.writer = p
          /\ pc[p] \in ReaderSteps => p \in collectionsMutex.readers
    /\ \A p, q \in Procs :
          (p # q /\ pc[p] \in WriterSteps) => pc[q] \notin WriterSteps \cup ReaderSteps

\* C6: StableAndPanicMetrics returns no partial result. It succeeds exactly when
\* it found both windows and both averages succeeded, and then returns those two
\* averages; in every other case it returns an error with both numbers -1.
C6_NoPartialResult ==
    \A p \in Procs :
        (pc[p] = "read_ret" /\ frame[p].op = "StableAndPanicMetrics")
        => LET f == frame[p]
               bothFound ==
                   /\ f.pobs.exists /\ WindowAvg(f.pobs.window).err = "nil"
                   /\ f.sobs.exists /\ WindowAvg(f.sobs.window).err = "nil"
           IN /\ f.ret.err = "nil" <=> bothFound
              /\ f.ret.err = "nil" =>
                    /\ f.ret.panic = WindowAvg(f.pobs.window).val
                    /\ f.ret.stable = WindowAvg(f.sobs.window).val
              /\ f.ret.err # "nil" => (f.ret.stable = MinusOne /\ f.ret.panic = MinusOne)

\* A call that found the panic window with a valid average and then no stable
\* window (or an empty one), and returned the error with both numbers -1.
C6_Witness ==
    \E p \in Procs :
        /\ pc[p] = "read_ret"
        /\ frame[p].op = "StableAndPanicMetrics"
        /\ frame[p].pobs.exists
        /\ WindowAvg(frame[p].pobs.window).err = "nil"
        /\ ~frame[p].sobs.exists
        /\ frame[p].ret = [stable |-> MinusOne, panic |-> MinusOne, err |-> "KeyNotFound"]

\* C25: on a dual-window client the panic map and the stable map have the same
\* keys whenever no update is inside them, and no StableAndPanicMetrics call
\* finds the panic window of a key and then no stable window of it.
C25_SameKeySets ==
    variant = "KPA" =>
        /\ (\A p \in Procs : pc[p] \notin WriterSteps) =>
              DOMAIN panicWindowDict = DOMAIN stableWindowDict
        /\ \A p \in Procs :
              (pc[p] = "read_ret" /\ frame[p].op = "StableAndPanicMetrics"
                 /\ frame[p].pobs.exists)
              => (frame[p].sobs.exists \/ WindowAvg(frame[p].pobs.window).err # "nil")

\* ------------------------------------------------------------ claims (sequential client)
ClientDicts ==
    IF variant = "KPA"
    THEN {[dict |-> panicWindowDict, d |-> panicDuration],
          [dict |-> stableWindowDict, d |-> stableDuration]}
    ELSE {[dict |-> windowDict, d |-> duration]}

ReadOps == {"StableAndPanicMetrics", "GetMetricValue"}
QueryTimes == Times \cup {panicDuration, stableDuration}

\* The average a history of Record calls calls for, read off the history
\* alone: of the records that no later record of the same ring slot replaced,
\* those whose bucket start lies in [now - d, now].
HistStart(h, i) == (h[i][1] \div granularity) * granularity
HistSlot(h, i, d) == (h[i][1] \div granularity) % (d \div granularity)
HistLive(h, d) ==
    {i \in 1 .. Len(h) : \A j \in (i + 1) .. Len(h) : HistSlot(h, j, d) # HistSlot(h, i, d)}
HistCounted(h, d, now) ==
    {i \in HistLive(h, d) : now - d <= HistStart(h, i) /\ HistStart(h, i) <= now}
RECURSIVE HistSum(_, _)
HistSum(h, S) ==
    IF S = {} THEN 0
    ELSE LET i == CHOOSE x \in S : TRUE IN h[i][2] + HistSum(h, S \ {i})

C4_SingleSampleBothWindows ==
    (/\ call.op = "StableAndPanicMetrics"
     /\ Len(hist[call.key]) = 1
     /\ hist[call.key][1][1] = call.now)
    => /\ call.err = "nil"
       /\ IsValue(call.stable, hist[call.key][1][2])
       /\ IsValue(call.panic, hist[call.key][1][2])

C4_Witness ==
    /\ call.op = "StableAndPanicMetrics"
    /\ hist[call.key] = << <<call.now, 2>> >>
    /\ call.err = "nil"
    /\ call.stable = Frac(2, 1)
    /\ call.panic = Frac(2, 1)

\* C5: StableAndPanicMetrics and GetMetricValue fail with key-not-found for a key
\* that was never updated, and return the sentinel -1, never a successful zero.
C5_NeverUpdatedKeyNotFound ==
    (call.op \in ReadOps /\ hist[call.key] = << >>)
    => /\ call.err = "KeyNotFound"
       /\ call.stable = MinusOne
       /\ call.panic = MinusOne

C5_Witness ==
    /\ call.op \in ReadOps
    /\ hist[call.key] = << >>
    /\ \E k \in Keys : hist[k] # << >>
    /\ call.err = "KeyNotFound"

\* C7 (as claimed): a read at time now of a key whose every update is older
\* than the longest window duration before now fails with EmptyWindow.
C7_StaleReadIsEmptyWindow ==
    (/\ call.op \in ReadOps
     /\ hist[call.key] # << >>
     /\ \A i \in 1 .. Len(hist[call.key]) :
           hist[call.key][i][1] < call.now - (IF variant = "KPA" THEN stableDuration ELSE duration))
    => call.err = "EmptyWindow"

\* The sum of a list, taken from its last element down.
RECURSIVE SumTo(_, _)
SumTo(l, n) == IF n = 0 THEN 0 ELSE l[n] + SumTo(l, n - 1)

\* C8: UpdatePodListMetric(values, key, now) leaves, in every window of the key
\* (created if absent), the bucket of now holding the sum of values (0 for an
\* empty list), and touches no other bucket and no other key.
C8_PodListRecordsSum ==
    [][(call'.op = "UpdatePodListMetric" /\ hist' # hist)
       => \A k \in Keys :
            /\ k \in DOMAIN panicWindowDict' <=> (k \in DOMAIN panicWindowDict \/ (k = call'.key /\ variant = "KPA"))
            /\ k \in DOMAIN stableWindowDict' <=> (k \in DOMAIN stableWindowDict \/ (k = call'.key /\ variant = "KPA"))
            /\ k \in DOMAIN windowDict' <=> (k \in DOMAIN windowDict \/ (k = call'.key /\ variant = "APA"))
            /\ k # call'.key =>
                 /\ k \in DOMAIN panicWindowDict => panicWindowDict'[k] = panicWindowDict[k]
                 /\ k \in DOMAIN stableWindowDict => stableWindowDict'[k] = stableWindowDict[k]
                 /\ k \in DOMAIN windowDict => windowDict'[k] = windowDict[k]
            /\ k = call'.key =>
                 LET s == SumTo(call'.values, Len(call'.values))
                     t == call'.now
                     Post(old, new, d) ==
                        LET w == new[k]
                            slot == (t \div granularity) % (d \div granularity)
                        IN /\ slot \in DOMAIN w.buckets
                           /\ w.buckets[slot] = [start |-> (t \div granularity) * granularity, value |-> s]
                           /\ DOMAIN w.buckets = {slot} \cup (IF k \in DOMAIN old THEN DOMAIN old[k].buckets ELSE {})
                           /\ \A i \in DOMAIN w.buckets \ {slot} : w.buckets[i] = old[k].buckets[i]
                 IN IF variant = "KPA"
                    THEN /\ Post(panicWindowDict, panicWindowDict', panicDuration)
                         /\ Post(stableWindowDict, stableWindowDict', stableDuration)
                    ELSE Post(windowDict, windowDict', duration)
      ]_vars

\* An empty list recorded as 0 into windows the call had to create, after a
\* two-pod list was recorded as its sum 4 under the other key.
C8_Witness ==
    /\ call.op = "UpdatePodListMetric"
    /\ call.values = << >>
    /\ hist[call.key] = << <<call.now, 0>> >>
    /\ \E k \in Keys \ {call.key} : \E t \in Times : hist[k] = << <<t, 4>> >>
    /\ \A c \in ClientDicts : call.key \in DOMAIN c.dict

KeepsEntries(dict, next) ==
    \A k \in DOMAIN dict :
        /\ k \in DOMAIN next
        /\ next[k].duration = dict[k].duration
        /\ next[k].granularity = dict[k].granularity
        /\ DOMAIN dict[k].buckets \subseteq DOMAIN next[k].buckets

\* C19: a key is in a client's window map(s) exactly when it has been updated,
\* its windows have the client's configured durations and granularity, and no
\* call removes or replaces an entry: a read adds none, an update adds at most
\* the entry of its own key.
C19_EntriesLazyAndPermanent ==
    /\ [](\A k \in Keys : \A c \in ClientDicts :
            /\ k \in DOMAIN c.dict <=> hist[k] # << >>
            /\ k \in DOMAIN c.dict =>
                  (c.dict[k].duration = c.d /\ c.dict[k].granularity = granularity))
    /\ [][/\ KeepsEntries(panicWindowDict, panicWindowDict')
          /\ KeepsEntries(stableWindowDict, stableWindowDict')
          /\ KeepsEntries(windowDict, windowDict')
          /\ \A k \in Keys :
                (k \in DOMAIN panicWindowDict' \cup DOMAIN stableWindowDict' \cup DOMAIN windowDict'
                 /\ k \notin DOMAIN panicWindowDict \cup DOMAIN stableWindowDict \cup DOMAIN windowDict)
                => (call'.op \notin ReadOps /\ call'.key = k)
         ]_vars

\* One key has been updated twice and kept its entry; the other key was only
\* read, which failed and made no entry for it.
C19_Witness ==
    /\ call.op \in ReadOps
    /\ call.err = "KeyNotFound"
    /\ \A c \in ClientDicts : call.key \notin DOMAIN c.dict
    /\ \E k \in Keys \ {call.key} :
          /\ Len(hist[k]) = 2
          /\ hist[k][1][1] # hist[k][2][1]
          /\ \A c \in ClientDicts :
                k \in DOMAIN c.dict /\ Cardinality(DOMAIN c.dict[k].buckets) = 2

\* ------------------------------------------------------------ claims (store)
\* The slots of the two tables, and what each holds.
PodSlots(pm) == UNION {{<<p, n>> : n \in DOMAIN pm[p]} : p \in DOMAIN pm}
PodModelSlots(pmm) ==
    UNION {UNION {{<<p, m, n>> : n \in DOMAIN pmm[p][m]} : m \in DOMAIN pmm[p]} : p \in DOMAIN pmm}

ScopeError(r) ==
    \/ r.scope = PodMetricScope /\ r.model # ""
    \/ r.scope = PodModelMetricScope /\ r.model = ""
    \/ r.scope \notin {PodMetricScope, PodModelMetricScope}

\* C9: a call of updatePodRecordLocked with pod scope and a model name, with
\* pod-model scope and no model name, or with any other scope returns an error
\* and leaves PodMetrics and PodModelMetrics as they were; any other call
\* returns no error, writes the value into the (pod, metric) or (pod, model,
\* metric) slot, and changes no other slot of either table.
C9_ScopeInvariant ==
    [][rec' # NoRec =>
        LET r == rec'
        IN IF ScopeError(r)
           THEN /\ r.err \in {"ScopeMismatch", "ScopeUnsupported"}
                /\ PodMetrics' = PodMetrics
                /\ PodModelMetrics' = PodModelMetrics
           ELSE /\ r.err = "nil"
                /\ IF r.scope = PodMetricScope
                   THEN /\ PodModelMetrics' = PodModelMetrics
                        /\ PodSlots(PodMetrics') = PodSlots(PodMetrics) \cup {<<r.pod, r.metric>>}
                        /\ DOMAIN PodMetrics' = DOMAIN PodMetrics
                        /\ PodMetrics'[r.pod][r.metric] = r.value
                        /\ \A s \in PodSlots(PodMetrics) \ {<<r.pod, r.metric>>} :
                              PodMetrics'[s[1]][s[2]] = PodMetrics[s[1]][s[2]]
                   ELSE /\ PodMetrics' = PodMetrics
                        /\ PodModelSlots(PodModelMetrics') =
                              PodModelSlots(PodModelMetrics) \cup {<<r.pod, r.model, r.metric>>}
                        /\ DOMAIN PodModelMetrics' = DOMAIN PodModelMetrics
                        /\ PodModelMetrics'[r.pod][r.model][r.metric] = r.value
                        /\ \A s \in PodModelSlots(PodModelMetrics) \ {<<r.pod, r.model, r.metric>>} :
                              PodModelMetrics'[s[1]][s[2]][s[3]] = PodModelMetrics[s[1]][s[2]][s[3]]
      ]_vars

\* A pod-scope metric was offered with a model name and refused, while both
\* tables already held values of that pod.
C9_Witness ==
    /\ rec.err = "ScopeMismatch"
    /\ rec.scope = PodMetricScope
    /\ rec.model # ""
    /\ \E s \in PodModelSlots(PodModelMetrics) : s[1] = rec.pod
    /\ \E s \in PodSlots(PodMetrics) : s[1] # rec.pod

\* Whether the tables hold, written in this cycle, the sample s.
RecordedThisCycle(s) ==
    LET scope == MetricScopeOf(s.metric)
    IN IF scope = PodMetricScope
       THEN /\ <<s.pod, s.metric>> \in PodSlots(PodMetrics)
            /\ PodMetrics[s.pod][s.metric].at = cycle
       ELSE /\ <<s.pod, s.model, s.metric>> \in PodModelSlots(PodModelMetrics)
            /\ PodModelMetrics[s.pod][s.model][s.metric].at = cycle

VisitedPods == {visited[i][1] : i \in 1 .. Len(visited)}

\* C10: whichever ready pods fail their metrics fetch, the cycle visits every
\* ready pod before it ends, the tables hold every scope-consistent sample that
\* the pod being updated has offered so far, and no step of the cycle panics.
C10_FailureIsolation ==
    /\ rec.err # "panic"
    /\ (mu = "refresh" /\ spc = "next_pod" /\ todo = {}) => VisitedPods = readyPods
    /\ mu = "refresh" =>
          \A s \in offered :
              ~ScopeError([scope |-> MetricScopeOf(s.metric), model |-> s.model])
              => RecordedThisCycle(s)

\* The cycle is over its two ready pods: the first one's fetch failed, the
\* second one's succeeded and a sample of it is in the tables.
C10_Witness ==
    /\ mu = "refresh" /\ spc = "next_pod" /\ todo = {}
    /\ Len(visited) = 2
    /\ ~visited[1][2]
    /\ visited[2][2]
    /\ \E s \in offered :
          /\ s.pod = visited[2][1]
          /\ MetricScopeOf(s.metric) = PodModelMetricScope
          /\ RecordedThisCycle(s)

\* The slots of one pod, with what they hold.
PodRow(pm, p) == {<<s[2], pm[s[1]][s[2]]>> : s \in {x \in PodSlots(pm) : x[1] = p}}
PodModelRow(pmm, p) ==
    {<<s[2], s[3], pmm[s[1]][s[2]][s[3]]>> : s \in {x \in PodModelSlots(pmm) : x[1] = p}}

\* C11 (as claimed): while the pod being updated is one whose fetch failed, no
\* updatePodRecordLocked call is made for it and no slot of it in PodMetrics or
\* PodModelMetrics is created or changed.
C11_FailedFetchSkipsInstance ==
    [][(mu' = "refresh" /\ cur'.pod # "none" /\ cur'.payload = "nil")
       => /\ rec' = NoRec
          /\ PodRow(PodMetrics', cur'.pod) = PodRow(PodMetrics, cur'.pod)
          /\ PodModelRow(PodModelMetrics', cur'.pod) = PodModelRow(PodModelMetrics, cur'.pod)
      ]_vars

\* C12 (as claimed): between two pod updates of one cycle the store's lock is
\* free.
C12_LockReleasedBetweenInstances ==
    (spc = "next_pod" /\ visited # << >> /\ todo # {}) => mu = "free"

\* C13 (as claimed): every pod with a row in PodModelMetrics has a non-empty
\* entry in PodToModelMapping, and every model under the row is in that entry.
C13_ModelRowsAreMapped ==
    \A p \in DOMAIN PodModelMetrics :
        /\ p \in DOMAIN PodToModelMapping
        /\ PodToModelMapping[p] # {}
        /\ DOMAIN PodModelMetrics[p] \subseteq PodToModelMapping[p]

\* C20: a step of a refresh cycle removes no row and no slot; a slot it creates
\* or changes is the one its updatePodRecordLocked call names, of the pod being
\* updated, which is ready in this cycle; a row it creates is that pod's. A
\* cycle that finds no ready pod changes neither table.
C20_RefreshWritesOnlyReadyRows ==
    [][(cycle' # cycle \/ mu = "refresh")
       => /\ DOMAIN PodMetrics \subseteq DOMAIN PodMetrics'
          /\ DOMAIN PodModelMetrics \subseteq DOMAIN PodModelMetrics'
          /\ \A p \in DOMAIN PodModelMetrics : DOMAIN PodModelMetrics[p] \subseteq DOMAIN PodModelMetrics'[p]
          /\ PodSlots(PodMetrics) \subseteq PodSlots(PodMetrics')
          /\ PodModelSlots(PodModelMetrics) \subseteq PodModelSlots(PodModelMetrics')
          /\ \A p \in (DOMAIN PodMetrics' \ DOMAIN PodMetrics) \cup
                      (DOMAIN PodModelMetrics' \ DOMAIN PodModelMetrics) :
                p = cur'.pod /\ p \in readyPods'
          /\ \A x \in PodSlots(PodMetrics') :
                (x \notin PodSlots(PodMetrics) \/ PodMetrics'[x[1]][x[2]] # PodMetrics[x[1]][x[2]])
                => /\ x[1] = cur.pod /\ x[1] \in readyPods
                   /\ rec'.err = "nil" /\ x = <<rec'.pod, rec'.metric>>
          /\ \A x \in PodModelSlots(PodModelMetrics') :
                (x \notin PodModelSlots(PodModelMetrics)
                 \/ PodModelMetrics'[x[1]][x[2]][x[3]] # PodModelMetrics[x[1]][x[2]][x[3]])
                => /\ x[1] = cur.pod /\ x[1] \in readyPods
                   /\ rec'.err = "nil" /\ x = <<rec'.pod, rec'.model, rec'.metric>>
          /\ readyPods' = {} => (PodMetrics' = PodMetrics /\ PodModelMetrics' = PodModelMetrics)
      ]_vars

\* The second cycle is over. A pod that left the live set after the first
\* cycle still has the slots that cycle gave it; the pod the second cycle
\* updated has a slot of the second cycle next to one it kept from the first.
C20_Witness ==
    /\ cycle = 2 /\ mu = "refresh" /\ spc = "next_pod" /\ todo = {}
    /\ \E p \in DOMAIN PodMetrics \ DOMAIN Pods :
          \E x \in PodRow(PodMetrics, p) : x[2].at = 1
    /\ \E p \in readyPods :
          /\ \E x \in PodRow(PodMetrics, p) : x[2].at = 2
          /\ \E x \in PodModelRow(PodModelMetrics, p) : x[3].at = 1

\* ------------------------------------------------------------ claims (drivers)
\* C14, as stated: refresh cycles never overlap, and every tick that fires
\* during a cycle is skipped: when a cycle that ran past a tick ends, no tick
\* is waiting to start a cycle for it.
C14_OverrunTicksAllSkipped ==
    /\ inFlight <= 1
    /\ (mpc = "select" /\ overran) => tickerC = 0

\* C14, amended: refresh cycles never overlap, and of the ticks that fire
\* during a cycle at most one is kept in ticker.C; the others are dropped, so
\* at most one cycle follows an overrunning cycle for all the ticks it missed.
C14_AtMostOneTickKept ==
    /\ inFlight <= 1
    /\ (mpc = "refresh") <=> (inFlight = 1)
    /\ tickerC <= 1
    /\ dropped => tickerC = 1

\* A cycle in progress has run past two ticks: one waits, one was dropped.
C14_Witness == mpc = "refresh" /\ inFlight = 1 /\ tickerC = 1 /\ dropped /\ overran

\* C15: once stopCh is closed both goroutines end, whatever they were doing
\* when it was closed, and a goroutine that has ended starts no refresh cycle
\* and writes no trace.
C15_DriversStopOnSignal ==
    /\ stopCh ~> (mpc = "done" /\ tpc = "done")
    /\ [][/\ mpc = "done" => (mpc' = "done" /\ inFlight' = 0)
          /\ tpc = "done" => (tpc' = "done" /\ wrote' = wrote)]_vars

\* stopCh was closed during a refresh cycle and during the alignment wait, and
\* both goroutines have ended.
C15_Witness ==
    /\ stopCh
    /\ stoppedIn = [metrics |-> "refresh", trace |-> "aligning"]
    /\ mpc = "done"
    /\ tpc = "done"
    /\ ticker = Stopped
    /\ traceTicker = Stopped

\* C16, as stated: for every start time the trace ticker is made only after a
\* wait, on a multiple of RequestTraceWriteInterval, and nothing is written
\* before.
C16_TickerStartsOnMultiple ==
    /\ tpc = "start" => tickerStart = -1
    /\ tickerStart # -1 => tickerOffset(tickerStart) = 0
    /\ tpc \in {"start", "aligning"} => wrote = -1

\* C16, amended: a start more than MaxRequestTraceIntervalOffset past a
\* multiple of the interval waits interval - offset and makes the ticker on the
\* next multiple; any other start makes the ticker at once, with no wait, at
\* most MaxRequestTraceIntervalOffset past a multiple. Nothing is written
\* before the goroutine has its ticker.
C16_AlignedUnlessWithinOffset ==
    /\ tickerOffset(startClock) > MaxRequestTraceIntervalOffset =>
          /\ tpc = "aligning" => traceTicker = NilTimer
          /\ tickerStart # -1 =>
                /\ tickerStart = (startClock + RequestTraceWriteInterval
                                    - tickerOffset(startClock)) % ClockModulus
                /\ tickerOffset(tickerStart) = 0
    /\ tickerOffset(startClock) <= MaxRequestTraceIntervalOffset =>
          /\ tickerStart = startClock
          /\ tpc # "aligning"
    /\ tickerStart # -1 => tickerOffset(tickerStart) <= MaxRequestTraceIntervalOffset
    /\ tpc \in {"start", "aligning"} => wrote = -1
    /\ wrote # -1 => tickerStart # -1

\* A start that had to wait: the ticker was made on a multiple, and a trace
\* was written after it.
C16_Witness ==
    /\ tickerOffset(startClock) > MaxRequestTraceIntervalOffset
    /\ tpc = "ticking"
    /\ tickerStart # -1
    /\ tickerStart # startClock
    /\ wrote # -1

\* C17: with a nil redisClient writeRequestTraceToStorage is never called, the
\* trace goroutine does nothing but return, and the refresh goroutine runs its
\* cycles all the same.
C17_NilSinkDisablesTraces ==
    redisClient = "nil" =>
        /\ wrote = -1
        /\ tpc \in {"start", "done"}
        /\ (mpc = "select" /\ tickerC > 0) => ENABLED MetricsTick

\* With a nil redisClient the trace goroutine has returned, traces were counted
\* and a trace tick has fired, and a refresh cycle is in progress.
C17_Witness ==
    /\ redisClient = "nil"
    /\ tpc = "done"
    /\ numRequestsTraces = 1
    /\ traceTickerC = 1
    /\ mpc = "refresh"
    /\ wrote = -1

\* The trace write interval in whole seconds.
IntervalSeconds == RequestTraceWriteInterval \div Second

\* C22: writeRequestTraceToStorage is called only by a trace tick that finds
\* numRequestsTraces non-zero, with the Unix time of the call rounded down to
\* a multiple of the interval (roundT mod interval = 0 and
\* t - interval < roundT <= t); a tick that finds no traces writes nothing and
\* leaves the loop ticking.
C22_WriteOnlyNonZeroRounded ==
    /\ [](wrote # -1 =>
            /\ wrote % IntervalSeconds = 0
            /\ wroteAt - IntervalSeconds < wrote
            /\ wrote <= wroteAt)
    /\ [][/\ (wrote' # wrote \/ wroteAt' # wroteAt) =>
                /\ numRequestsTraces # 0
                /\ tpc = "ticking"
                /\ traceTickerC' = traceTickerC - 1
                /\ wroteAt' = clock \div Second
          /\ (traceTickerC' < traceTickerC /\ numRequestsTraces = 0) =>
                /\ wrote' = wrote
                /\ wroteAt' = wroteAt
                /\ tpc' = "ticking"
                /\ traceTicker' = traceTicker]_vars

\* A trace was written at a time that is not a multiple of the interval, for
\* the multiple before it, and the loop goes on.
C22_Witness ==
    /\ wrote # -1
    /\ wroteAt > wrote
    /\ tpc = "ticking"
    /\ Running(traceTicker)

\* ------------------------------------------------------------ claims (queries)
\* The queries a pod's visit owes: one per pod-scope metric with no model
\* name, one per pod-model-scope metric and model the pod is mapped to.
ExpectedQueries(p) ==
    {[model |-> "", metric |-> prometheusMetricNames[i]] :
        i \in {j \in DOMAIN prometheusMetricNames :
                 MetricScopeOf(prometheusMetricNames[j]) = PodMetricScope}}
    \cup
    {[model |-> m, metric |-> prometheusMetricNames[i]] :
        m \in (IF p \in DOMAIN PodToModelMapping THEN PodToModelMapping[p] ELSE {}),
        i \in {j \in DOMAIN prometheusMetricNames :
                 MetricScopeOf(prometheusMetricNames[j]) = PodModelMetricScope}}

QueriesMade == {[model |-> queried[i].model, metric |-> queried[i].metric] : i \in DOMAIN queried}

\* The slot of the pod being updated that a query's result goes to.
QuerySlot(q) ==
    IF q.model = ""
    THEN IF q.metric \in DOMAIN PodMetrics[cur.pod]
         THEN PodMetrics[cur.pod][q.metric] ELSE NoRec.value
    ELSE IF q.model \in DOMAIN PodModelMetrics[cur.pod]
            /\ q.metric \in DOMAIN PodModelMetrics[cur.pod][q.model]
         THEN PodModelMetrics[cur.pod][q.model][q.metric] ELSE NoRec.value

\* The pods that hold a query-derived value.
PodsWithQueryValues ==
    {s[1] : s \in {t \in PodSlots(PodMetrics) : PodMetrics[t[1]][t[2]].kind = "Prometheus"}}
    \cup
    {s[1] : s \in {t \in PodModelSlots(PodModelMetrics) :
                      PodModelMetrics[t[1]][t[2]][t[3]].kind = "Prometheus"}}

\* C21: without a query backend no query is made and no query-derived value
\* is in the tables. With one, when the visit of a ready pod is over, exactly
\* one query was made per pod-scope metric (with no model name) and per
\* pod-model-scope metric and mapped model, none for a pod without mapping,
\* whether or not earlier queries failed; a query that succeeded left its value
\* in its slot and one that failed left its slot as it was; and only ready
\* pods were queried.
C21_QueriesPerScopeAndMapping ==
    /\ prometheusApi = "nil" =>
          /\ queried = << >>
          /\ spc # "promql"
          /\ \A s \in PodSlots(PodMetrics) : PodMetrics[s[1]][s[2]].kind # "Prometheus"
          /\ \A s \in PodModelSlots(PodModelMetrics) :
                PodModelMetrics[s[1]][s[2]][s[3]].kind # "Prometheus"
    /\ queried # << >> => (cur.pod \in readyPods /\ prometheusApi # "nil")
    /\ QueriesMade \subseteq (IF cur.pod = "none" THEN {} ELSE ExpectedQueries(cur.pod))
    /\ Cardinality(QueriesMade) = Len(queried)
    /\ \A i \in DOMAIN queried :
          queried[i].ok <=> (QuerySlot(queried[i]) = Value("Prometheus"))
    /\ PodsWithQueryValues \subseteq FilterReadyPods(Pods)
    /\ (spc = "next_pod" /\ cur.pod # "none" /\ prometheusApi # "nil") =>
          QueriesMade = ExpectedQueries(cur.pod)

\* The visit of a pod mapped to two models is over: the first query failed and
\* the queries after it, for the other model and the other metric, were made
\* and recorded.
C21_Witness ==
    /\ spc = "next_pod"
    /\ cur.pod # "none"
    /\ Len(queried) = 3
    /\ ~queried[1].ok
    /\ queried[2].ok
    /\ queried[3].ok
    /\ queried[2].model # queried[1].model
    /\ \E p \in readyPods \ {cur.pod} : p \notin DOMAIN PodToModelMapping

\* ------------------------------------------------------------ claims (singleton)
\* C23: Get fails until Init has run; however many callers call Init, New runs
\* once and each driver is started once; every Init call returns the store New
\* made, set up; and every Get that succeeds returns that store with its
\* informers and drivers set up.
C23_Singleton ==
    /\ constructed <= 1
    /\ starts.metrics <= 1
    /\ starts.trace <= 1
    /\ (once = "done" /\ Alive) => (constructed = 1 /\ starts = [metrics |-> 1, trace |-> 1])
    /\ once = "fresh" => \A p \in Callers : ret[p].op = "Get" => ret[p].err = "NotInitialized"
    /\ \A p \in Callers :
          ret[p].op = "Init" => (ret[p].store = "new" /\ ret[p].ready)
    /\ \A p \in Callers :
          (ret[p].op = "Get" /\ ret[p].err = "nil") => (ret[p].store = "new" /\ ret[p].ready)

\* ------------------------------------------------------------ claims (pod metric fetch)
\* C24: GetMetricsFromPods fetches the pods in the order of the list. If every
\* fetch succeeds it returns one value per pod, in that order; if a fetch fails
\* it fetches no further pod and returns that error with a nil slice.
C24_AllOrNothingInOrder ==
    fpc = "done" =>
        LET failed == {i \in DOMAIN fFetched : fFetched[i].err # "nil"}
        IN /\ Len(fFetched) <= Len(fPods)
           /\ \A i \in DOMAIN fFetched : fFetched[i].pod = fPods[i]
           /\ IF failed = {}
              THEN /\ Len(fFetched) = Len(fPods)
                   /\ fRet.err = "nil"
                   /\ ~fRet.isNil
                   /\ Len(fRet.metrics) = Len(fPods)
                   /\ \A i \in DOMAIN fPods : fRet.metrics[i] = fFetched[i].metric
              ELSE /\ failed = {Len(fFetched)}
                   /\ fRet.isNil
                   /\ fRet.metrics = << >>
                   /\ fRet.err = fFetched[Len(fFetched)].err

\* Of three pods the first was fetched, the fetch of the second failed and the
\* third was not fetched: the call returned the error and a nil slice.
C24_Witness ==
    /\ fpc = "done"
    /\ Len(fPods) = 3
    /\ Len(fFetched) = 2
    /\ fFetched[1].err = "nil"
    /\ fFetched[2].err = "FetchError"
    /\ fRet = [isNil |-> TRUE, metrics |-> << >>, err |-> "FetchError"]

\* ------------------------------------------------------------ claims (metric aggregation)
\* The metrics the subscribers name.
Subscribed == UNION {{subscribers[i][j] : j \in DOMAIN subscribers[i]} : i \in DOMAIN subscribers}

\* C26: on a store built by New aggregateMetrics never fails, whatever the
\* subscribers, and when it has returned every metric a subscriber names is a
\* key of the store's metrics map.
C26_AggregateCompletes ==
    /\ apc # "panic"
    /\ apc = "done" => Subscribed \subseteq DOMAIN metrics.entries

====
